---- MODULE Spec2Model ----
(***************************************************************************)
(* Authority authorization and routing core of the complaint system:       *)
(* complaints/jwt_auth.py, complaints/views.py, complaints/models.py,      *)
(* complaints/forms.py.                                                    *)
(*                                                                         *)
(* Strings that the code parses (the `next` URL, search text) are          *)
(* sequences of tokens: "/" ":" "?" "#" "[" "]" are the delimiters the     *)
(* code and urllib look at, every other token is an atomic run of          *)
(* ordinary characters.                                                    *)
(***************************************************************************)
EXTENDS Integers, Sequences, FiniteSets, TLC

VARIABLES
    users,        \* models.User rows: [id -> record]
    complaints,   \* models.Complaint rows: sequence, pk = index
    cookies,      \* the browser's authority cookies: [access, refresh]
    held,         \* a copy of an access token the client kept (bearer header)
    resp,         \* what the last request did and answered
    probe,        \* input and result of one application of a pure function
    session,      \* the browser's Django session: [user, user_logged_in]
    claimed,      \* history: per complaint, the non-admin department that first
                  \* saved it while it was unassigned (None: none yet)
    inflight      \* detail POSTs between their read and their write:
                  \* [request -> pc, actor, read copy, form]

vars == <<users, complaints, cookies, held, resp, probe, session, claimed, inflight>>

----------------------------------------------------------------------------
(* Bounds of the model *)

MaxComplaints == 1   \* complaints in the table of the full system
MaxRows == 2         \* complaints in the table of the dashboard queries
MaxPathLen == 5      \* tokens in the path of a `next` URL
MaxAccounts == 3     \* accounts in the table, registered ones included

----------------------------------------------------------------------------
(* Python values *)

\* Python's None, for nullable text columns and absent parameters
None == "<None>"

\* truth value of a str-or-None in `if x:` / `x or y`
Truthy(x) == x # None /\ x # ""

\* models.DEPARTMENT_CHOICES as dict(DEPARTMENT_CHOICES)
DEPARTMENT_CHOICES ==
    [admin  |-> "Central Administration",
     power  |-> "Power & Electricity",
     health |-> "Public Health & Engineering",
     works  |-> "Public Works"]

Directory == DOMAIN DEPARTMENT_CHOICES

\* dict(DEPARTMENT_CHOICES).get(key, default)
DeptName(key, default) ==
    IF key \in Directory THEN DEPARTMENT_CHOICES[key] ELSE default

STATUS_CHOICES == {"pending", "in_progress", "resolved"}
PRIORITY_CHOICES == {"low", "medium", "high", "urgent"}

----------------------------------------------------------------------------
(* Token sequences *)

RECURSIVE Concat(_)
\* "".join(tokens)
Concat(s) == IF s = <<>> THEN "" ELSE Head(s) \o Concat(Tail(s))

\* s[i:] (1-based i)
From(s, i) == IF i > Len(s) THEN <<>> ELSE SubSeq(s, i, Len(s))

\* s[:i-1] (1-based i)
Before(s, i) == IF i <= 1 THEN <<>> ELSE SubSeq(s, 1, i - 1)

\* s.find(t) as a 1-based index, 0 when absent
Find(s, ts) ==
    IF \E i \in 1..Len(s) : s[i] \in ts
    THEN CHOOSE i \in 1..Len(s) : s[i] \in ts /\ \A j \in 1..(i - 1) : s[j] \notin ts
    ELSE 0

\* s.startswith(p)
StartsWith(s, p) == Len(s) >= Len(p) /\ SubSeq(s, 1, Len(p)) = p

Delims == {"/", ":", "?", "#", "[", "]"}

----------------------------------------------------------------------------
(* urllib.parse.urlparse / geturl on token sequences *)

\* the scheme prefix urlsplit recognises: a word followed by ":"
HasScheme(url) == Len(url) >= 2 /\ url[1] \notin Delims /\ url[2] = ":"

\* urlsplit's check of the netloc: unbalanced brackets raise ValueError
NetlocRaises(netloc) ==
    (\E i \in 1..Len(netloc) : netloc[i] = "[") # (\E i \in 1..Len(netloc) : netloc[i] = "]")

urlparse(url) ==
    LET scheme   == IF HasScheme(url) THEN url[1] ELSE ""
        r1       == IF HasScheme(url) THEN From(url, 3) ELSE url
        hasNet   == StartsWith(r1, <<"/", "/">>)
        afterNet == From(r1, 3)
        delim    == Find(afterNet, {"/", "?", "#"})
        netloc   == IF ~hasNet THEN <<>>
                    ELSE IF delim = 0 THEN afterNet ELSE Before(afterNet, delim)
        r2       == IF ~hasNet THEN r1
                    ELSE IF delim = 0 THEN <<>> ELSE From(afterNet, delim)
        hashAt   == Find(r2, {"#"})
        fragment == IF hashAt = 0 THEN <<>> ELSE From(r2, hashAt + 1)
        r3       == IF hashAt = 0 THEN r2 ELSE Before(r2, hashAt)
        qAt      == Find(r3, {"?"})
        query    == IF qAt = 0 THEN <<>> ELSE From(r3, qAt + 1)
        path     == IF qAt = 0 THEN r3 ELSE Before(r3, qAt)
    IN  [raises |-> hasNet /\ NetlocRaises(netloc),
         scheme |-> scheme, netloc |-> netloc, path |-> path,
         query |-> query, fragment |-> fragment]

\* ParseResult.geturl(): urlunparse of the parsed parts
geturl(p) ==
    LET withNet == IF p.netloc # <<>> \/ p.scheme = "http"
                   THEN <<"/", "/">> \o p.netloc
                        \o (IF p.path # <<>> /\ p.path[1] # "/" THEN <<"/">> ELSE <<>>)
                        \o p.path
                   ELSE p.path
        withSch == IF p.scheme # "" THEN <<p.scheme, ":">> \o withNet ELSE withNet
        withQ   == IF p.query # <<>> THEN withSch \o <<"?">> \o p.query ELSE withSch
    IN  IF p.fragment # <<>> THEN withQ \o <<"#">> \o p.fragment ELSE withQ

RECURSIVE SplitSlash(_, _)
\* [p for p in path.split("/") if p], each part joined to a str
SplitSlash(path, cur) ==
    IF path = <<>> THEN (IF cur = "" THEN <<>> ELSE <<cur>>)
    ELSE IF Head(path) = "/"
         THEN (IF cur = "" THEN <<>> ELSE <<cur>>) \o SplitSlash(Tail(path), "")
         ELSE SplitSlash(Tail(path), cur \o Head(path))

\* views.authority_login lines 93-105: the department a `next` URL asks for;
\* None when nothing is requested, "<raises>" when urlparse raises ValueError
Raises == "<raises>"

\* the resolver taking the whole `next` string for the path
RequestedDeptWholeUrl(next_url) ==
    LET parts == SplitSlash(next_url, "")
    IN  IF StartsWith(next_url, <<"/", "authority", "/">>) /\ Len(parts) >= 2
        THEN (IF parts[2] = "dashboard" THEN "admin" ELSE parts[2])
        ELSE None

RequestedDept(next_url) ==
    IF next_url = <<>> THEN None
    ELSE LET parsed == urlparse(next_url)
             path   == IF parsed.path # <<>> THEN parsed.path ELSE geturl(parsed)
             parts  == SplitSlash(path, "")
         IN  IF parsed.raises THEN Raises
             ELSE IF StartsWith(path, <<"/", "authority", "/">>) /\ Len(parts) >= 2
                  THEN (IF parts[2] = "dashboard" THEN "admin" ELSE parts[2])
                  ELSE None

\* django.urls.reverse for the routes of urls.py
Reverse(name, slug) ==
    CASE name = "home"                 -> <<"/">>
      [] name = "login"                -> <<"/", "login", "/">>
      [] name = "my_complaints"        -> <<"/", "my-complaints", "/">>
      [] name = "authority_login"      -> <<"/", "authority", "/", "login", "/">>
      [] name = "authority_landing"    -> <<"/", "authority", "/">>
      [] name = "authority_dashboard"  -> <<"/", "authority", "/", "dashboard", "/">>
      [] name = "department_dashboard" -> <<"/", "authority", "/", slug, "/">>

----------------------------------------------------------------------------
(* Accounts and credentials *)

UserIds == {1, 2}

\* the username of account id (fixed at creation)
UsernameOf(id) == IF id = 1 THEN <<"a", "s">> ELSE <<"b", "i">>

\* the contact number of account id
ContactOf(id) == IF id = 1 THEN <<"900000001">> ELSE <<"900000002">>

\* the password each account was created with
PasswordOf(id) == IF id = 1 THEN "pw-a" ELSE "pw-b"

\* django.contrib.auth.authenticate with ModelBackend: the id of the active
\* account with that username and password, 0 (None) otherwise
authenticate(username, password) ==
    IF \E id \in DOMAIN users :
           /\ users[id].username = username
           /\ users[id].password = password
           /\ users[id].is_active
    THEN CHOOSE id \in DOMAIN users :
           /\ users[id].username = username
           /\ users[id].password = password
           /\ users[id].is_active
    ELSE 0

----------------------------------------------------------------------------
(* Claims tokens (rest_framework_simplejwt) *)

\* no token: a missing or empty cookie or header (`not access_token`)
NoToken ==
    [token_type |-> "none", user_id |-> 0, username |-> <<>>, department |-> None,
     is_staff |-> FALSE, sig |-> FALSE, expired |-> FALSE]

\* a string that is no JWT at all
Malformed == [NoToken EXCEPT !.token_type = "malformed"]

Mint(type, user, department) ==
    [token_type |-> type, user_id |-> user, username |-> users[user].username,
     department |-> department, is_staff |-> users[user].is_staff,
     sig |-> TRUE, expired |-> FALSE]

\* the department is left out of the access token
generate_jwt_tokensNoDepartment(user, department) ==
    [refresh |-> Mint("refresh", user, department),
     access  |-> Mint("access", user, None)]

\* jwt_auth.generate_jwt_tokens
generate_jwt_tokens(user, department) ==
    [refresh |-> Mint("refresh", user, department),
     access  |-> Mint("access", user, department)]

\* the expiry is not looked at
AccessTokenVerifiesNoExpiry(t) == t.token_type = "access" /\ t.sig

\* AccessToken(raw) does not raise TokenError: an access token, well signed,
\* not expired
AccessTokenVerifies(t) == t.token_type = "access" /\ t.sig /\ ~t.expired

\* the header is preferred to the cookie
PresentedTokenBearerFirst(req) == IF req.bearer # NoToken THEN req.bearer ELSE req.cookie

\* the token get_user_from_token reads: the cookie, else the bearer header
PresentedToken(req) == IF req.cookie # NoToken THEN req.cookie ELSE req.bearer

\* the Authorization header is not looked at
get_user_from_tokenCookieOnly(req) ==
    LET access_token == req.cookie
        uid          == access_token.user_id
    IN  IF access_token = NoToken
        THEN [user |-> 0, department |-> None, error |-> "No authentication token provided"]
        ELSE IF ~AccessTokenVerifies(access_token)
        THEN [user |-> 0, department |-> None, error |-> "Invalid token"]
        ELSE IF ~(uid \in DOMAIN users /\ users[uid].is_active)
        THEN [user |-> 0, department |-> None, error |-> "User not found"]
        ELSE IF users[uid].is_staff # access_token.is_staff
                \/ users[uid].department # access_token.department
        THEN [user |-> 0, department |-> None,
              error |-> "Token claims do not match user state"]
        ELSE [user |-> uid, department |-> access_token.department, error |-> None]

\* the claims are not compared with the account: its live department is used
get_user_from_tokenLiveState(req) ==
    LET access_token == PresentedToken(req)
        uid          == access_token.user_id
    IN  IF access_token = NoToken
        THEN [user |-> 0, department |-> None, error |-> "No authentication token provided"]
        ELSE IF ~AccessTokenVerifies(access_token)
        THEN [user |-> 0, department |-> None, error |-> "Invalid token"]
        ELSE IF ~(uid \in DOMAIN users /\ users[uid].is_active)
        THEN [user |-> 0, department |-> None, error |-> "User not found"]
        ELSE [user |-> uid, department |-> users[uid].department, error |-> None]

\* jwt_auth.get_user_from_token: (user, department, error)
get_user_from_token(req) ==
    LET access_token == PresentedToken(req)
        uid          == access_token.user_id
    IN  IF access_token = NoToken
        THEN [user |-> 0, department |-> None, error |-> "No authentication token provided"]
        ELSE IF ~AccessTokenVerifies(access_token)
        THEN [user |-> 0, department |-> None, error |-> "Invalid token"]
        ELSE IF ~(uid \in DOMAIN users /\ users[uid].is_active)
        THEN [user |-> 0, department |-> None, error |-> "User not found"]
        ELSE IF users[uid].is_staff # access_token.is_staff
                \/ users[uid].department # access_token.department
        THEN [user |-> 0, department |-> None,
              error |-> "Token claims do not match user state"]
        ELSE [user |-> uid, department |-> access_token.department, error |-> None]

\* no department requirement is checked
DepartmentAccessNone(required_department, department) == TRUE

\* the admin department passes every department requirement
DepartmentAccessAdminPasses(required_department, department) ==
    IF Truthy(required_department)
    THEN department = required_department \/ department = "admin"
    ELSE Truthy(department)

\* wrapped_view lines 96-120: the required_department check
DepartmentAccess(required_department, department) ==
    IF Truthy(required_department)
    THEN (IF required_department = "admin" THEN department = "admin"
          ELSE department = required_department)
    ELSE Truthy(department)

\* jwt_auth.jwt_authority_required(required_department).wrapped_view up to the
\* call of view_func: whether the view runs, else where the request is sent
Guard(req, required_department) ==
    LET t      == get_user_from_token(req)
        reject == [ran |-> FALSE, route |-> "authority_landing", msg |-> "",
                   label |-> None, jwt_user |-> 0, jwt_department |-> None]
    IN  IF t.user = 0 \/ t.error # None
        THEN [reject EXCEPT !.route = "authority_login", !.msg = "AuthenticationRequired"]
        ELSE IF ~users[t.user].is_staff
        THEN [reject EXCEPT !.msg = "InsufficientRole"]
        ELSE IF ~DepartmentAccess(required_department, t.department)
        THEN [reject EXCEPT
                 !.msg = IF Truthy(required_department) THEN "DepartmentMismatch"
                         ELSE "NoDepartmentAssigned",
                 !.label = IF Truthy(required_department)
                           THEN DeptName(required_department, required_department)
                           ELSE None]
        ELSE [ran |-> TRUE, route |-> "", msg |-> "", label |-> None,
              jwt_user |-> t.user, jwt_department |-> t.department]

----------------------------------------------------------------------------
(* Requests and responses *)

\* the request as the authority views read it: cookie from the browser's jar,
\* bearer header as the client chooses
Request(bearer) == [cookie |-> cookies.access, bearer |-> bearer]

NoComplaint ==
    [user |-> 0, title |-> <<>>, description |-> <<>>, location |-> <<>>,
     priority |-> "", assigned_department |-> None, status |-> ""]

NoFilters == [q |-> <<>>, status |-> "all", priority |-> "all", department |-> None]

\* the two requests of a race
Procs == {1, 2}

NoStats == [total |-> 0, pending |-> 0, third |-> 0, resolved |-> 0]

\* a response that did nothing yet; each view fills in its part
Response(op, method) ==
    [op |-> op, method |-> method,
     status |-> "none",            \* "render", "redirect", "404", "500"
     template |-> "", location |-> <<>>,
     msg |-> "", label |-> None,
     minted |-> FALSE,             \* generate_jwt_tokens was called
     set_access |-> NoToken, set_refresh |-> NoToken, cleared |-> FALSE,
     presented |-> NoToken,        \* the token the guard read
     bearer |-> NoToken,           \* the token of the Authorization header
     ran |-> FALSE,                \* the guarded view body ran
     jwt_user |-> 0, jwt_department |-> None,
     required |-> None,
     username |-> <<>>, password |-> "", next |-> <<>>, contact |-> <<>>,
     auth_user |-> 0, requested_dept |-> None,
     slug |-> "", filters |-> NoFilters, base |-> {}, rows |-> {}, stats |-> NoStats,
     pk |-> 0, before |-> NoComplaint, form |-> FALSE, posted |-> NoComplaint,
     saved |-> FALSE]

Render(r, template) == [r EXCEPT !.status = "render", !.template = template]

Redirect(r, location) == [r EXCEPT !.status = "redirect", !.location = location]

\* an unhandled exception: Django answers 500
Fault(r) == [r EXCEPT !.status = "500"]

\* only the access token is stored
set_jwt_cookiesAccessOnly(r, tokens) == [r EXCEPT !.set_access = tokens.access]

\* jwt_auth.set_jwt_cookies
set_jwt_cookies(r, tokens) ==
    [r EXCEPT !.set_access = tokens.access, !.set_refresh = tokens.refresh]

\* a logout response that deletes no cookie
clear_jwt_cookiesNone(r) == r

\* jwt_auth.clear_jwt_cookies
clear_jwt_cookies(r) == [r EXCEPT !.cleared = TRUE]

\* the browser applies the response's Set-Cookie headers to its jar
ApplyCookies(r) ==
    IF r.cleared THEN [access |-> NoToken, refresh |-> NoToken]
    ELSE [access  |-> IF r.set_access # NoToken THEN r.set_access ELSE cookies.access,
          refresh |-> IF r.set_refresh # NoToken THEN r.set_refresh ELSE cookies.refresh]

\* a rejection that also deletes the authority cookies
GuardRejectedClears(r, g) ==
    clear_jwt_cookies(
        Redirect([r EXCEPT !.msg = g.msg, !.label = g.label], Reverse(g.route, "")))

\* the rejection the decorator answers with when the view does not run
GuardRejected(r, g) ==
    Redirect([r EXCEPT !.msg = g.msg, !.label = g.label], Reverse(g.route, ""))

\* request.jwt_user / request.jwt_department as attached by the decorator
GuardPassed(r, g) ==
    [r EXCEPT !.ran = TRUE, !.jwt_user = g.jwt_user, !.jwt_department = g.jwt_department]

----------------------------------------------------------------------------
(* views.authority_login *)

\* request.POST.get("next") or request.GET.get("next", "")
NextParam(post_next, get_next) == IF post_next # <<>> THEN post_next ELSE get_next

\* lines 194-207: the page, given the slug lines 173-192 resolved and what
\* get_user_from_token answered
LoginPageFor(r, key, t) ==
    IF key = Raises THEN Fault(r)
    ELSE Render([r EXCEPT !.label = IF key = None THEN None ELSE DeptName(key, None),
                          !.jwt_user = t.user],
                "authority_login.html")

\* lines 171-207: the login page, with the label of the dashboard `next` names
LoginPage(r, next_param, bearer) ==
    LoginPageFor(r, RequestedDept(next_param), get_user_from_token(Request(bearer)))

\* line 80: the staff gate
StaffGateAlways(user) == TRUE

StaffGate(user) == users[user].is_staff

\* the comparison is the wrong way round
DepartmentGateInverted(department, requested_dept) == department # requested_dept

\* any department at all satisfies the requested one
DepartmentGateAny(department, requested_dept) == Truthy(department)

\* lines 111 and 129: the account's department is the requested one
DepartmentGate(department, requested_dept) == department = requested_dept

\* any assigned department will do on a bare login
DirectoryGateAny(department) == Truthy(department)

\* lines 149 and 155: the account has a department and it is in the directory
DirectoryGate(department) == Truthy(department) /\ department \in Directory

\* tokens = generate_jwt_tokens(user, user.department); response = redirect(to);
\* set_jwt_cookies(response, tokens)
Establish(r, location, user) ==
    set_jwt_cookies(Redirect([r EXCEPT !.minted = TRUE], location),
                    generate_jwt_tokens(user, users[user].department))

\* lines 75-169: what the POST branch answers once authenticate returned
\* `user` and lines 93-105 resolved `requested_dept`; r carries the request
LoginDecide(r, user, requested_dept, next_url, bearer) ==
    LET rq   == [r EXCEPT !.requested_dept = requested_dept]
        dept == users[user].department
        page == "authority_login.html"
    IN  IF user = 0
        THEN LoginPage([r EXCEPT !.msg = "InvalidCredentials"], next_url, bearer)
        ELSE IF ~StaffGate(user)
        THEN Render([r EXCEPT !.msg = "InsufficientRole"], page)
        ELSE IF requested_dept = Raises
        THEN Fault(rq)
        ELSE IF Truthy(requested_dept) /\ requested_dept = "admin"
        THEN IF DepartmentGate(dept, "admin")
             THEN Establish(rq, next_url, user)
             ELSE Render([rq EXCEPT !.msg = "DepartmentMismatch",
                                    !.label = DeptName("admin", "Central Administration")],
                         page)
        ELSE IF Truthy(requested_dept)
        THEN IF DepartmentGate(dept, requested_dept)
             THEN Establish(rq, Reverse("department_dashboard", requested_dept), user)
             ELSE Render([rq EXCEPT !.msg = "DepartmentMismatch",
                                    !.label = DeptName(requested_dept, requested_dept)],
                         page)
        ELSE IF Truthy(dept) /\ dept = "admin"
        THEN Establish(rq, Reverse("authority_dashboard", ""), user)
        ELSE IF DirectoryGate(dept)
        THEN Establish(rq, Reverse("department_dashboard", dept), user)
        ELSE Render([rq EXCEPT !.msg = "NoDepartmentAssigned"], page)

\* lines 68-169: the POST branch; the response, not yet applied to the jar
LoginPost(r0, username, password, next_url, bearer) ==
    LoginDecide([r0 EXCEPT !.username = username, !.password = password,
                           !.next = next_url,
                           !.auth_user = authenticate(username, password)],
                authenticate(username, password), RequestedDept(next_url),
                next_url, bearer)

\* the view's response; the browser applies its Set-Cookie headers to the jar
AuthorityLoginPost(username, password, post_next, get_next, bearer) ==
    /\ resp' = LoginPost(Response("authority_login", "POST"), username, password,
                         NextParam(post_next, get_next), bearer)
    /\ cookies' = ApplyCookies(resp')
    /\ UNCHANGED <<users, complaints, held, probe, session, claimed, inflight>>

AuthorityLoginGet(get_next, bearer) ==
    /\ resp' = LoginPage([Response("authority_login", "GET") EXCEPT !.next = get_next],
                         get_next, bearer)
    /\ cookies' = ApplyCookies(resp')
    /\ UNCHANGED <<users, complaints, held, probe, session, claimed, inflight>>

\* views.authority_logout
AuthorityLogout ==
    /\ resp' = clear_jwt_cookies(
                   Redirect([Response("authority_logout", "GET") EXCEPT !.msg = "LoggedOut"],
                            Reverse("authority_landing", "")))
    /\ cookies' = ApplyCookies(resp')
    /\ UNCHANGED <<users, complaints, held, probe, session, claimed, inflight>>

----------------------------------------------------------------------------
(* Complaint queries: views._apply_filters and the querysets of the views *)

Pks == 1..Len(complaints)

\* str.lower() on one character
Lower(c) == CASE c = "A" -> "a" [] c = "B" -> "b" [] OTHER -> c

LowerAll(s) == [i \in 1..Len(s) |-> Lower(s[i])]

RECURSIVE LStrip(_)
LStrip(s) == IF s # <<>> /\ Head(s) = " " THEN LStrip(Tail(s)) ELSE s

RECURSIVE RStrip(_)
RStrip(s) == IF s # <<>> /\ s[Len(s)] = " " THEN RStrip(SubSeq(s, 1, Len(s) - 1)) ELSE s

\* str.strip()
Strip(s) == RStrip(LStrip(s))

\* field__icontains=term
IContains(field, term) ==
    \E i \in 0..(Len(field) - Len(term)) :
        SubSeq(LowerAll(field), i + 1, i + Len(term)) = LowerAll(term)

\* the Q(...) | Q(...) search of _apply_filters
MatchesSearch(c, term) ==
    \/ IContains(c.title, term)
    \/ IContains(c.description, term)
    \/ IContains(c.location, term)
    \/ IContains(users[c.user].name, term)
    \/ IContains(users[c.user].username, term)

\* only the null assignment counts as unassigned
UnassignedNullOnly(c) == c.assigned_department = None

\* assigned_department__isnull=True | assigned_department=""
Unassigned(c) == c.assigned_department = None \/ c.assigned_department = ""

\* the search runs over the whole table, not over the queryset it was given
_apply_filtersSearchAll(queryset, params, include_department) ==
    LET filters == [q          |-> Strip(params.q),
                    status     |-> IF params.status = None THEN "all" ELSE params.status,
                    priority   |-> IF params.priority = None THEN "all"
                                   ELSE params.priority,
                    department |-> IF ~include_department THEN None
                                   ELSE IF params.department = None THEN "all"
                                   ELSE params.department]
        q1 == IF filters.q # <<>>
              THEN {pk \in Pks : MatchesSearch(complaints[pk], filters.q)}
              ELSE queryset
        q2 == IF filters.status # "all"
              THEN {pk \in q1 : complaints[pk].status = filters.status}
              ELSE q1
        q3 == IF filters.priority # "all"
              THEN {pk \in q2 : complaints[pk].priority = filters.priority}
              ELSE q2
        q4 == IF ~include_department THEN q3
              ELSE IF filters.department = "unassigned"
              THEN {pk \in q3 : Unassigned(complaints[pk])}
              ELSE IF filters.department \notin {"", "all", None}
              THEN {pk \in q3 : complaints[pk].assigned_department = filters.department}
              ELSE q3
    IN  [queryset |-> q4, filters |-> filters]

\* views._apply_filters: (queryset, filters); params holds request.GET with
\* None for an absent parameter
_apply_filters(queryset, params, include_department) ==
    LET filters == [q          |-> Strip(params.q),
                    status     |-> IF params.status = None THEN "all" ELSE params.status,
                    priority   |-> IF params.priority = None THEN "all"
                                   ELSE params.priority,
                    department |-> IF ~include_department THEN None
                                   ELSE IF params.department = None THEN "all"
                                   ELSE params.department]
        q1 == IF filters.q # <<>>
              THEN {pk \in queryset : MatchesSearch(complaints[pk], filters.q)}
              ELSE queryset
        q2 == IF filters.status # "all"
              THEN {pk \in q1 : complaints[pk].status = filters.status}
              ELSE q1
        q3 == IF filters.priority # "all"
              THEN {pk \in q2 : complaints[pk].priority = filters.priority}
              ELSE q2
        q4 == IF ~include_department THEN q3
              ELSE IF filters.department = "unassigned"
              THEN {pk \in q3 : Unassigned(complaints[pk])}
              ELSE IF filters.department \notin {"", "all", None}
              THEN {pk \in q3 : complaints[pk].assigned_department = filters.department}
              ELSE q3
    IN  [queryset |-> q4, filters |-> filters]

\* no department filter on the base queryset
DepartmentBaseAll(department_slug) == Pks

\* department_dashboard lines 540-546: the base queryset of a department
DepartmentBase(department_slug) ==
    {pk \in Pks : \/ complaints[pk].assigned_department = department_slug
                  \/ Unassigned(complaints[pk])}

\* a count that ignores the status
CountStatusAny(queryset, status) == Cardinality(queryset)

CountStatus(queryset, status) == Cardinality({pk \in queryset : complaints[pk].status = status})

----------------------------------------------------------------------------
(* The guarded views *)

\* jwt_authority_required(required_department) around a view that only renders
GuardedView(required_department, bearer) ==
    LET req == Request(bearer)
        g   == Guard(req, required_department)
        r0  == [Response("guarded_view", "GET") EXCEPT
                   !.presented = PresentedToken(req), !.bearer = req.bearer, !.required = required_department]
        r   == IF ~g.ran THEN GuardRejected(r0, g)
               ELSE Render(GuardPassed(r0, g), "view.html")
    IN  /\ resp' = r
        /\ UNCHANGED <<users, complaints, cookies, held, probe, session, claimed, inflight>>

\* views.authority_dashboard
AuthorityDashboard(bearer, params) ==
    LET req == Request(bearer)
        g   == Guard(req, "admin")
        r0  == [Response("authority_dashboard", "GET") EXCEPT
                   !.presented = PresentedToken(req), !.bearer = req.bearer, !.required = "admin"]
        all_complaints == Pks
        f   == _apply_filters(all_complaints, params, TRUE)
        stats == [total    |-> Cardinality(all_complaints),
                  pending  |-> CountStatus(all_complaints, "pending"),
                  third    |-> Cardinality({pk \in all_complaints :
                                   ~(\/ Unassigned(complaints[pk])
                                     \/ complaints[pk].assigned_department = "admin")}),
                  resolved |-> CountStatus(all_complaints, "resolved")]
        r   == IF ~g.ran THEN GuardRejected(r0, g)
               ELSE Render([GuardPassed(r0, g) EXCEPT
                               !.base = all_complaints, !.rows = f.queryset,
                               !.filters = f.filters, !.stats = stats],
                           "authority_dashboard.html")
    IN  /\ resp' = r
        /\ UNCHANGED <<users, complaints, cookies, held, probe, session, claimed, inflight>>

\* every slug counts as a department
SlugKnownAny(department_slug) == TRUE

\* department_dashboard lines 529-530: department_slug in department_lookup
SlugKnown(department_slug) == department_slug \in Directory

\* views.department_dashboard
DepartmentDashboard(bearer, department_slug, params) ==
    LET req == Request(bearer)
        g   == Guard(req, None)
        r0  == [Response("department_dashboard", "GET") EXCEPT
                   !.presented = PresentedToken(req), !.bearer = req.bearer, !.slug = department_slug]
        rg  == GuardPassed(r0, g)
        base_queryset == DepartmentBase(department_slug)
        f   == _apply_filters(base_queryset, params, FALSE)
        stats == [total    |-> Cardinality(base_queryset),
                  pending  |-> CountStatus(base_queryset, "pending"),
                  third    |-> CountStatus(base_queryset, "in_progress"),
                  resolved |-> CountStatus(base_queryset, "resolved")]
        r   == IF ~g.ran THEN GuardRejected(r0, g)
               ELSE IF ~SlugKnown(department_slug)
               THEN Redirect([rg EXCEPT !.msg = "UnknownDepartment"],
                             Reverse("authority_landing", ""))
               ELSE IF g.jwt_department # department_slug
               THEN Redirect([rg EXCEPT !.msg = "DepartmentMismatch",
                                        !.label = DeptName(department_slug, department_slug)],
                             Reverse("authority_landing", ""))
               ELSE Render([rg EXCEPT !.base = base_queryset, !.rows = f.queryset,
                                      !.filters = f.filters, !.stats = stats],
                           "authority_dashboard.html")
    IN  /\ resp' = r
        /\ UNCHANGED <<users, complaints, cookies, held, probe, session, claimed, inflight>>

\* the actor's own department is always added to the allowed ones
DetailAllowedOwnAlways(department, complaint) ==
    LET allowed_departments ==
            (IF Truthy(complaint.assigned_department)
             THEN {complaint.assigned_department} ELSE {})
            \cup (IF Truthy(department) THEN {department} ELSE {})
    IN  department = "admin" \/ department \in allowed_departments

\* authority_complaint_detail lines 596-611: a non-admin department may manage
\* the complaint
DetailAllowed(department, complaint) ==
    LET allowed_departments ==
            IF Truthy(complaint.assigned_department)
            THEN {complaint.assigned_department}
            ELSE IF Truthy(department) THEN {department} ELSE {}
    IN  department = "admin" \/ department \in allowed_departments

\* a form that accepts whatever is posted
FormValidAny(posted) == TRUE

\* ComplaintAdminForm(request.POST, instance=complaint).is_valid()
FormValid(posted) ==
    /\ posted.status \in STATUS_CHOICES
    /\ posted.priority \in PRIORITY_CHOICES
    /\ posted.assigned_department \in Directory \cup {""}

\* a form over every field of the model: what is posted replaces the row
FormSaveAllFields(complaint, posted) == posted

\* form.save(): the three fields of ComplaintAdminForm.Meta.fields
FormSave(complaint, posted) ==
    [complaint EXCEPT
        !.status = posted.status,
        !.assigned_department = IF posted.assigned_department = "" THEN None
                                ELSE posted.assigned_department,
        !.priority = posted.priority]

\* lines 613-618
RedirectTarget(next, referer) ==
    IF next # <<>> THEN next
    ELSE IF referer # <<>> THEN referer
    ELSE Reverse("authority_dashboard", "")

\* views.authority_complaint_detail; posted is the POST form data
AuthorityComplaintDetail(method, bearer, pk, posted, next, referer) ==
    LET req == Request(bearer)
        g   == Guard(req, None)
        r0  == [Response("authority_complaint_detail", method) EXCEPT
                   !.presented = PresentedToken(req), !.bearer = req.bearer, !.pk = pk]
        rg  == GuardPassed(r0, g)
        complaint == complaints[pk]
        rc  == [rg EXCEPT !.before = complaint]
        page == "authority_complaint_detail.html"
        valid == method = "POST" /\ g.ran /\ pk \in Pks
                 /\ DetailAllowed(g.jwt_department, complaint) /\ FormValid(posted)
        r   == IF ~g.ran THEN GuardRejected(r0, g)
               ELSE IF pk \notin Pks THEN [rg EXCEPT !.status = "404"]
               ELSE IF ~DetailAllowed(g.jwt_department, complaint)
               THEN Redirect([rc EXCEPT !.msg = "ComplaintAccessDenied"],
                             Reverse("authority_landing", ""))
               ELSE IF method = "POST" /\ FormValid(posted)
               THEN Redirect([rc EXCEPT !.msg = "Updated", !.posted = posted,
                                        !.saved = TRUE],
                             RedirectTarget(next, referer))
               ELSE IF method = "POST"
               THEN Render([rc EXCEPT !.msg = "InvalidForm", !.posted = posted,
                                      !.form = TRUE], page)
               ELSE Render([rc EXCEPT !.form = TRUE], page)
    IN  /\ resp' = r
        /\ complaints' = IF valid
                         THEN [complaints EXCEPT ![pk] = FormSave(complaint, posted)]
                         ELSE complaints
        /\ claimed' = IF valid /\ g.jwt_department # "admin" /\ Unassigned(complaint)
                              /\ claimed[pk] = None
                       THEN [claimed EXCEPT ![pk] = g.jwt_department]
                       ELSE claimed
        /\ UNCHANGED <<users, cookies, held, probe, session, inflight>>

\* a detail POST that is not between its read and its write
Idle ==
    [pc |-> "idle", r |-> Response("authority_complaint_detail", "POST"),
     posted |-> NoComplaint, redirect_target |-> <<>>]

NoRequests == [p \in Procs |-> Idle]

\* authority_complaint_detail, a POST up to form.is_valid() (lines 586-622):
\* the decorator, the read of the row (line 593), the access check on the copy
\* read (lines 596-611) and the validation. A request answered here is over;
\* one that passed is in flight, holding its copy and its form.
DetailPostRead(p, bearer, pk, posted, next, referer) ==
    LET req == Request(bearer)
        g   == Guard(req, None)
        r0  == [Response("authority_complaint_detail", "POST") EXCEPT
                   !.presented = PresentedToken(req), !.bearer = req.bearer, !.pk = pk]
        rg  == GuardPassed(r0, g)
        complaint == complaints[pk]
        rc  == [rg EXCEPT !.before = complaint]
        valid == g.ran /\ pk \in Pks
                 /\ DetailAllowed(g.jwt_department, complaint) /\ FormValid(posted)
        r   == IF ~g.ran THEN GuardRejected(r0, g)
               ELSE IF pk \notin Pks THEN [rg EXCEPT !.status = "404"]
               ELSE IF ~DetailAllowed(g.jwt_department, complaint)
               THEN Redirect([rc EXCEPT !.msg = "ComplaintAccessDenied"],
                             Reverse("authority_landing", ""))
               ELSE Render([rc EXCEPT !.msg = "InvalidForm", !.posted = posted,
                                      !.form = TRUE],
                           "authority_complaint_detail.html")
    IN  /\ inflight[p].pc = "idle"
        /\ resp' = IF valid THEN resp ELSE r
        /\ inflight' = IF valid
                       THEN [inflight EXCEPT ![p] =
                                [pc |-> "validated", r |-> rc, posted |-> posted,
                                 redirect_target |-> RedirectTarget(next, referer)]]
                       ELSE inflight
        /\ UNCHANGED <<users, complaints, cookies, held, probe, session, claimed>>

\* authority_complaint_detail lines 623-627: form.save() writes the instance
\* read earlier, with the three form fields replaced, over the stored row; the
\* row is not read again and nothing is locked
DetailPostWrite(p) ==
    LET f  == inflight[p]
        pk == f.r.pk
    IN  /\ f.pc = "validated"
        /\ complaints' = [complaints EXCEPT ![pk] = FormSave(f.r.before, f.posted)]
        /\ resp' = Redirect([f.r EXCEPT !.msg = "Updated", !.posted = f.posted,
                                        !.saved = TRUE],
                            f.redirect_target)
        /\ claimed' = IF f.r.jwt_department # "admin" /\ Unassigned(complaints[pk])
                         /\ claimed[pk] = None
                      THEN [claimed EXCEPT ![pk] = f.r.jwt_department]
                      ELSE claimed
        /\ inflight' = [inflight EXCEPT ![p] = Idle]
        /\ UNCHANGED <<users, cookies, held, probe, session>>

----------------------------------------------------------------------------
(* The citizen portal: views.user_login_required and the views behind it *)

\* a session without a logged-in user and without the portal flag
AnonymousSession == [user |-> 0, user_logged_in |-> FALSE]

\* request.user (AuthenticationMiddleware, ModelBackend.get_user): the
\* session's account when it exists and is active, anonymous (0) otherwise
RequestUser ==
    IF session.user \in DOMAIN users /\ users[session.user].is_active
    THEN session.user
    ELSE 0

IsAuthenticated == RequestUser # 0

\* django.contrib.auth.login: a session that holds another account is
\* flushed, any other session keeps its data
login(s, id) ==
    IF s.user # 0 /\ s.user # id
    THEN [user |-> id, user_logged_in |-> FALSE]
    ELSE [s EXCEPT !.user = id]

\* django.contrib.auth.logout: the session is flushed
logout(s) == AnonymousSession

\* the decorator without its second check, as plain login_required would be
user_login_requiredAnyLogin ==
    IF ~IsAuthenticated
    THEN [ran |-> FALSE, msg |-> "PleaseLogIn"]
    ELSE [ran |-> TRUE, msg |-> ""]

\* the decision of user_login_required on the current request
user_login_required ==
    IF ~IsAuthenticated
    THEN [ran |-> FALSE, msg |-> "PleaseLogIn"]
    ELSE IF ~session.user_logged_in
    THEN [ran |-> FALSE, msg |-> "CitizenPortalRequired"]
    ELSE [ran |-> TRUE, msg |-> ""]

\* the response of a decorated view: the body's when the decorator lets the
\* request through, the redirect to the citizen login otherwise
Decorated(r0, body) ==
    LET g == user_login_required
    IN  IF g.ran
        THEN [body EXCEPT !.ran = TRUE, !.auth_user = RequestUser]
        ELSE Redirect([r0 EXCEPT !.msg = g.msg], Reverse("login", ""))

home ==
    LET r0 == Response("home", "GET")
    IN  /\ resp' = Decorated(r0, Render(r0, "home.html"))
        /\ UNCHANGED <<users, complaints, cookies, held, probe, session, claimed, inflight>>

my_complaints ==
    LET r0 == Response("my_complaints", "GET")
        rows == {pk \in DOMAIN complaints : complaints[pk].user = RequestUser}
    IN  /\ resp' = Decorated(r0, Render([r0 EXCEPT !.rows = rows], "my_complaints.html"))
        /\ UNCHANGED <<users, complaints, cookies, held, probe, session, claimed, inflight>>

\* ComplaintForm: title required, priority one of the choices
ComplaintFormValid(title, priority) ==
    title # <<>> /\ priority \in PRIORITY_CHOICES

\* form.save(commit=False), user and location filled in by the view
NewComplaint(owner, title, priority) ==
    [user |-> owner, title |-> title, description |-> <<"d">>,
     location |-> users[owner].address, priority |-> priority,
     assigned_department |-> None, status |-> "pending"]

submit_complaint(method, title, priority) ==
    LET r0 == Response("submit_complaint", method)
        g  == user_login_required
        stored == g.ran /\ method = "POST" /\ ComplaintFormValid(title, priority)
        body == IF method = "POST" /\ ComplaintFormValid(title, priority)
                THEN Redirect([r0 EXCEPT !.msg = "Submitted", !.saved = TRUE],
                              Reverse("my_complaints", ""))
                ELSE Render([r0 EXCEPT !.form = TRUE], "submit_complaint.html")
    IN  /\ stored => Len(complaints) < MaxComplaints
        /\ resp' = Decorated(r0, body)
        /\ complaints' = IF stored
                         THEN Append(complaints, NewComplaint(RequestUser, title, priority))
                         ELSE complaints
        /\ claimed' = IF stored THEN Append(claimed, None) ELSE claimed
        /\ UNCHANGED <<users, cookies, held, probe, session, inflight>>

\* User.objects.get(contact=contact): the accounts with exactly that contact
ByContact(contact) == {id \in DOMAIN users : users[id].contact = contact}

user_login(method, contact, password) ==
    LET r0 == [Response("user_login", method) EXCEPT
                  !.contact = contact, !.password = password]
        found == ByContact(contact)
        user == IF Cardinality(found) = 1
                THEN authenticate(users[CHOOSE id \in found : TRUE].username, password)
                ELSE 0
        tried == ~(IsAuthenticated /\ session.user_logged_in)
                 /\ method = "POST" /\ contact # <<>> /\ password # ""
        page == "login.html"
    IN  /\ resp' =
             IF IsAuthenticated /\ session.user_logged_in
             THEN Redirect(r0, Reverse("home", ""))
             ELSE IF ~tried THEN Render(r0, page)
             ELSE IF Cardinality(found) > 1 THEN Fault(r0)
             ELSE IF user # 0
             THEN Redirect([r0 EXCEPT !.msg = "LoginSuccessful", !.auth_user = user],
                           Reverse("home", ""))
             ELSE Render([r0 EXCEPT !.msg = "InvalidContactOrPassword"], page)
        /\ session' = IF tried /\ user # 0
                      THEN [login(session, user) EXCEPT !.user_logged_in = TRUE]
                      ELSE session
        /\ UNCHANGED <<users, complaints, cookies, held, probe, claimed, inflight>>

\* ''.join(filter(str.isdigit, contact))
Digits(contact) == SelectSeq(contact, LAMBDA t : t \notin {"+", "-", " "})

\* UserRegistrationForm.is_valid: the username and the contact's digits are
\* new; fields_ok stands for the rules on the remaining fields
RegistrationValid(form) ==
    /\ form.fields_ok
    /\ \A id \in DOMAIN users : users[id].username # form.username
    /\ \A id \in DOMAIN users : Digits(users[id].contact) # Digits(form.contact)

\* a registration that takes the staff flag and a department
RegisteredAsStaff(form) ==
    [username |-> form.username, password |-> form.password,
     name |-> <<"C">>, contact |-> form.contact, address |-> <<"x">>,
     is_staff |-> TRUE, is_active |-> TRUE, department |-> "power"]

\* form.save(): a new active account, not staff, without department
Registered(form) ==
    [username |-> form.username, password |-> form.password,
     name |-> <<"C">>, contact |-> form.contact, address |-> <<"x">>,
     is_staff |-> FALSE, is_active |-> TRUE, department |-> None]

register(method, form) ==
    LET r0 == [Response("register", method) EXCEPT
                  !.username = form.username, !.contact = form.contact,
                  !.password = form.password]
        created == method = "POST" /\ RegistrationValid(form)
        id == Cardinality(DOMAIN users) + 1
    IN  /\ created => Cardinality(DOMAIN users) < MaxAccounts
        /\ resp' = IF created
                   THEN Redirect([r0 EXCEPT !.msg = "RegistrationSuccessful",
                                            !.auth_user = id, !.saved = TRUE],
                                 Reverse("home", ""))
                   ELSE Render([r0 EXCEPT !.form = TRUE], "register.html")
        /\ users' = IF created
                    THEN [i \in DOMAIN users \cup {id} |->
                             IF i = id THEN Registered(form) ELSE users[i]]
                    ELSE users
        /\ session' = IF created
                      THEN [login(session, id) EXCEPT !.user_logged_in = TRUE]
                      ELSE session
        /\ UNCHANGED <<complaints, cookies, held, probe, claimed, inflight>>

\* views.forgot_password: nothing is stored, the answer tells whether an
\* account has the contact
forgot_password(method, contact) ==
    LET r0 == [Response("forgot_password", method) EXCEPT !.contact = contact]
        found == ByContact(contact)
        page == "forgot_password.html"
    IN  /\ resp' =
             IF method # "POST" THEN Render(r0, page)
             ELSE IF contact = <<>>
             THEN Render([r0 EXCEPT !.msg = "ProvideContact"], page)
             ELSE IF Cardinality(found) > 1 THEN Fault(r0)
             ELSE IF found = {}
             THEN Render([r0 EXCEPT !.msg = "NoAccountWithContact"], page)
             ELSE Redirect([r0 EXCEPT !.msg = "ResetInstructionsSent"],
                           Reverse("login", ""))
        /\ UNCHANGED <<users, complaints, cookies, held, probe, session, claimed, inflight>>

\* a logout that also drops the authority cookies
user_logoutClearsCookies ==
    /\ resp' = clear_jwt_cookies(
                   Redirect([Response("user_logout", "GET") EXCEPT !.msg = "LoggedOut"],
                            Reverse("login", "")))
    /\ session' = logout(session)
    /\ cookies' = ApplyCookies(resp')
    /\ UNCHANGED <<users, complaints, held, probe, claimed, inflight>>

user_logout ==
    /\ resp' = Redirect([Response("user_logout", "GET") EXCEPT !.msg = "LoggedOut"],
                        Reverse("login", ""))
    /\ session' = logout(session)
    /\ UNCHANGED <<users, complaints, cookies, held, probe, claimed, inflight>>

----------------------------------------------------------------------------
(* What happens outside the views *)

External(what) == [Response("external", "") EXCEPT !.msg = what]

\* the login form of the Django admin site: an active staff account is
\* logged into the session by django.contrib.auth.login, no portal flag
AdminSiteLogin(username, password) ==
    LET user == authenticate(username, password)
    IN  /\ user # 0
        /\ users[user].is_staff
        /\ session' = login(session, user)
        /\ resp' = External("admin site login")
        /\ UNCHANGED <<users, complaints, cookies, held, probe, claimed, inflight>>

\* the logout of the Django admin site
AdminSiteLogout ==
    /\ session' = logout(session)
    /\ resp' = External("admin site logout")
    /\ UNCHANGED <<users, complaints, cookies, held, probe, claimed, inflight>>

\* admin.UserAdmin: staff flag, active flag and department are edited in the
\* Django admin
AdminEditUser(id, field, value) ==
    /\ id \in DOMAIN users
    /\ users' = [users EXCEPT ![id] =
                    CASE field = "department" -> [@ EXCEPT !.department = value]
                      [] field = "is_staff"   -> [@ EXCEPT !.is_staff = value]
                      [] field = "is_active"  -> [@ EXCEPT !.is_active = value]]
    /\ users' # users
    /\ resp' = External("user edited")
    /\ UNCHANGED <<complaints, cookies, held, probe, session, claimed, inflight>>

\* admin.ComplaintAdmin.list_editable: status, assigned_department, priority
AdminEditComplaint(pk, posted) ==
    /\ pk \in Pks
    /\ FormValid(posted)
    /\ complaints' = [complaints EXCEPT ![pk] = FormSave(@, posted)]
    /\ complaints' # complaints
    /\ resp' = External("complaint edited")
    /\ UNCHANGED <<users, cookies, held, probe, session, claimed, inflight>>

\* the lifetime of the access token in the jar runs out
TokenExpires ==
    /\ cookies.access.token_type = "access"
    /\ ~cookies.access.expired
    /\ cookies' = [cookies EXCEPT !.access.expired = TRUE]
    /\ held' = IF held = cookies.access THEN cookies'.access ELSE held
    /\ resp' = External("token expired")
    /\ UNCHANGED <<users, complaints, probe, session, claimed, inflight>>

\* the client copies its access cookie, to send it as a bearer header later
KeepToken ==
    /\ cookies.access # NoToken
    /\ held # cookies.access
    /\ held' = cookies.access
    /\ resp' = External("token kept")
    /\ UNCHANGED <<users, complaints, cookies, probe, session, claimed, inflight>>

\* the client replaces its access cookie by a token of its own making
TamperCookie(t) ==
    /\ cookies.access # t
    /\ cookies' = [cookies EXCEPT !.access = t]
    /\ resp' = External("cookie replaced")
    /\ UNCHANGED <<users, complaints, held, probe, session, claimed, inflight>>

----------------------------------------------------------------------------
(* The system: one browser, the account and complaint tables *)

\* the accounts as the administrator created them
InitUsers ==
    [id \in UserIds |->
        [username |-> UsernameOf(id), password |-> PasswordOf(id),
         name |-> IF id = 1 THEN <<"A">> ELSE <<"B">>,
         contact |-> ContactOf(id),
         address |-> <<"x">>,
         is_staff |-> (id = 1), is_active |-> TRUE,
         department |-> IF id = 1 THEN "power" ELSE None]]

\* a complaint as submit_complaint stores it: owned by the submitter, pending,
\* unassigned, located at the owner's address
Submitted(owner, title, priority) ==
    [user |-> owner, title |-> title, description |-> <<"d">>,
     location |-> InitUsers[owner].address, priority |-> priority,
     assigned_department |-> None, status |-> "pending"]

NoCookies == [access |-> NoToken, refresh |-> NoToken]

NoProbe ==
    [url |-> <<>>, scheme |-> "", host |-> <<>>, path |-> <<>>, tail |-> <<>>,
     done |-> FALSE, result |-> None]

\* the complaints are as submitted, or rows written outside the forms, which
\* can hold "" for no assignment
Init ==
    /\ users = InitUsers
    /\ complaints \in [1..MaxComplaints ->
                         {Submitted(2, <<"b">>, "medium"),
                          [Submitted(2, <<"b">>, "medium") EXCEPT
                              !.assigned_department = ""]}]
    /\ cookies = NoCookies
    /\ held = NoToken
    /\ resp = Response("init", "")
    /\ probe = NoProbe
    /\ session = AnonymousSession
    /\ claimed = [pk \in DOMAIN complaints |-> None]
    /\ inflight = NoRequests

\* what the client can send as a bearer header
Bearers == {NoToken, held}

\* a token signed with another key, claiming the admin department
Forged ==
    [token_type |-> "access", user_id |-> 1, username |-> UsernameOf(1),
     department |-> "admin", is_staff |-> TRUE, sig |-> FALSE, expired |-> FALSE]

Ghost == <<"g", "h">>

Passwords == {PasswordOf(id) : id \in UserIds}

Url(slug) == <<"/", "authority", "/", slug, "/">>

EditDepartments == {None, "admin", "power", "health"}

PostedForms ==
    {[NoComplaint EXCEPT !.status = s, !.priority = "high", !.assigned_department = d] :
        s \in {"in_progress", "bogus"}, d \in {"", "power", "health"}}

DefaultParams == [q |-> <<>>, status |-> None, priority |-> None, department |-> None]

Next ==
    \/ \E u \in {UsernameOf(1), UsernameOf(2)}, p \in Passwords,
          n \in {<<>>, Url("dashboard"), Url("power")} :
           AuthorityLoginPost(u, p, n, <<>>, NoToken)
    \/ AuthorityLoginGet(<<>>, NoToken)
    \/ AuthorityLogout
    \/ AuthorityDashboard(NoToken, DefaultParams)
    \/ \E slug \in {"admin", "power", "health"} :
           DepartmentDashboard(NoToken, slug, DefaultParams)
    \/ \E pk \in 1..MaxComplaints :
           \/ AuthorityComplaintDetail("GET", NoToken, pk, NoComplaint, <<>>, <<>>)
           \/ \E f \in PostedForms :
                  AuthorityComplaintDetail("POST", NoToken, pk, f, <<>>, <<>>)
    \/ \E d \in EditDepartments : AdminEditUser(1, "department", d)
    \/ \E v \in BOOLEAN : AdminEditUser(1, "is_staff", v)
    \/ \E pk \in 1..MaxComplaints, f \in PostedForms : AdminEditComplaint(pk, f)
    \/ TokenExpires
    \/ TamperCookie(Forged)

Spec == Init /\ [][Next]_vars

----------------------------------------------------------------------------
(* The login flow with every kind of account and `next` *)

LoginNames == {UsernameOf(id) : id \in UserIds} \cup {Ghost}

LoginDepartments == {None, "", "admin", "power", "health", "legacy"}

LoginNextUrls ==
    {<<>>, Url("dashboard"), Url("power"), Url("health"), Url("admin"), Url("legacy"),
     <<"/", "authority", "/">>, <<"/", "elsewhere">>,
     <<"http", ":", "/", "/", "evil.com">> \o Url("dashboard"),
     <<"http", ":", "/", "/", "evil.com">> \o Url("power"),
     Url("power") \o <<"?", "status=pending">>,
     <<"http", ":", "/", "/", "[">> \o Url("power")}

NextLogin ==
    \/ \E u \in LoginNames, p \in Passwords, n \in LoginNextUrls :
           AuthorityLoginPost(u, p, n, <<>>, NoToken)
    \/ \E u \in LoginNames, p \in Passwords :
           AuthorityLoginPost(u, p, <<>>, Url("health"), NoToken)
    \/ \E n \in LoginNextUrls : AuthorityLoginGet(n, NoToken)
    \/ AuthorityLogout
    \/ \E d \in LoginDepartments : AdminEditUser(1, "department", d)
    \/ \E v \in BOOLEAN : AdminEditUser(1, "is_staff", v)
    \/ \E v \in BOOLEAN : AdminEditUser(1, "is_active", v)

InitLogin ==
    /\ Init
    /\ \A pk \in DOMAIN complaints : complaints[pk].assigned_department = None

SpecLogin == InitLogin /\ [][NextLogin]_vars

----------------------------------------------------------------------------
(* The access guard on every kind of token and account *)

GuardDepartments == {None, "", "admin", "power"}

GuardUsers ==
    {[InitUsers EXCEPT ![1].department = d, ![1].is_staff = s, ![1].is_active = a] :
        d \in GuardDepartments, s \in BOOLEAN, a \in BOOLEAN}

\* id 3 is no account
GuardTokens ==
    {NoToken, Malformed}
    \cup {[token_type |-> ty, user_id |-> id, username |-> UsernameOf(1),
           department |-> d, is_staff |-> s, sig |-> sg, expired |-> e] :
            ty \in {"access", "refresh"}, id \in {1, 3}, d \in GuardDepartments,
            s \in BOOLEAN, sg \in BOOLEAN, e \in BOOLEAN}

GuardRequired == {None, "", "admin", "power", "health"}

InitGuard ==
    /\ users \in GuardUsers
    /\ complaints = <<Submitted(2, <<"b">>, "medium")>>
    /\ cookies \in {[access |-> t, refresh |-> NoToken] : t \in GuardTokens}
    /\ held \in {NoToken, [Forged EXCEPT !.sig = TRUE, !.department = "power"]}
    /\ resp = Response("init", "")
    /\ probe = NoProbe
    /\ session = AnonymousSession
    /\ claimed = [pk \in DOMAIN complaints |-> None]
    /\ inflight = NoRequests

NextGuard ==
    \/ \E r \in GuardRequired, b \in Bearers : GuardedView(r, b)
    \/ \E b \in Bearers : AuthorityDashboard(b, DefaultParams)
    \/ \E b \in Bearers, slug \in {"power", "nowhere"} :
           DepartmentDashboard(b, slug, DefaultParams)
    \/ \E b \in Bearers :
           AuthorityComplaintDetail("GET", b, 1, NoComplaint, <<>>, <<>>)
    \/ KeepToken

SpecGuard == InitGuard /\ [][NextGuard]_vars

----------------------------------------------------------------------------
(* A token the client kept, presented again after logouts, logins, expiry and
   edits of the account *)

NextHeld ==
    \/ \E n \in {<<>>, Url("power")} :
           AuthorityLoginPost(UsernameOf(1), PasswordOf(1), n, <<>>, NoToken)
    \/ AuthorityLogout
    \/ KeepToken
    \/ TokenExpires
    \/ TamperCookie(Forged)
    \/ \E d \in {"power", "health"} : AdminEditUser(1, "department", d)
    \/ \E v \in BOOLEAN : AdminEditUser(1, "is_staff", v)
    \/ \E b \in Bearers, r \in {None, "power", "admin"} : GuardedView(r, b)
    \/ \E b \in Bearers : AuthorityDashboard(b, DefaultParams)
    \/ \E b \in Bearers : DepartmentDashboard(b, "power", DefaultParams)
    \/ \E b \in Bearers :
           AuthorityComplaintDetail("GET", b, 1, NoComplaint, <<>>, <<>>)

SpecHeld == InitLogin /\ [][NextHeld]_vars

----------------------------------------------------------------------------
(* Two departments' staff working on the same unassigned complaints *)

TriageUsers ==
    [InitUsers EXCEPT ![2].is_staff = TRUE, ![2].department = "health"]

InitTriage ==
    /\ users = TriageUsers
    /\ complaints = [pk \in 1..MaxComplaints |-> Submitted(2, <<"b">>, "medium")]
    /\ cookies = NoCookies
    /\ held = NoToken
    /\ resp = Response("init", "")
    /\ probe = NoProbe
    /\ session = AnonymousSession
    /\ claimed = [pk \in DOMAIN complaints |-> None]
    /\ inflight = NoRequests

NextTriage ==
    \/ \E id \in UserIds :
           AuthorityLoginPost(UsernameOf(id), PasswordOf(id), <<>>, <<>>, NoToken)
    \/ AuthorityLogout
    \/ \E pk \in Pks : AuthorityComplaintDetail("GET", NoToken, pk, NoComplaint, <<>>, <<>>)
    \/ \E pk \in Pks, f \in PostedForms :
           AuthorityComplaintDetail("POST", NoToken, pk, f, <<>>, <<>>)

SpecTriage == InitTriage /\ [][NextTriage]_vars

----------------------------------------------------------------------------
(* Two clients posting to the detail route at once, each with its own bearer
   token; the server interleaves their reads and writes *)

\* the access token a login of the account returns
TokenOf(id) == generate_jwt_tokens(id, users[id].department).access

NextRace ==
    \/ \E p \in Procs, id \in UserIds, pk \in Pks, f \in PostedForms :
           DetailPostRead(p, TokenOf(id), pk, f, <<>>, <<>>)
    \/ \E p \in Procs : DetailPostWrite(p)

SpecRace == InitTriage /\ [][NextRace]_vars

----------------------------------------------------------------------------
(* One browser using the citizen portal, the Django admin site and the
   authority routes *)

RegistrationForms ==
    {[username |-> <<"c", "i">>, contact |-> c, password |-> "pw-c", fields_ok |-> ok] :
        c \in {<<"900000003">>, <<"+", "900000001">>}, ok \in BOOLEAN}

InitCitizen ==
    /\ users = InitUsers
    /\ complaints = <<>>
    /\ cookies = NoCookies
    /\ held = NoToken
    /\ resp = Response("init", "")
    /\ probe = NoProbe
    /\ session = AnonymousSession
    /\ claimed = <<>>
    /\ inflight = NoRequests

NextCitizen ==
    \/ \E m \in {"GET", "POST"}, c \in {ContactOf(1), ContactOf(2), <<"900000003">>, <<>>},
          p \in {PasswordOf(1), PasswordOf(2)} : user_login(m, c, p)
    \/ \E m \in {"GET", "POST"}, f \in RegistrationForms : register(m, f)
    \/ user_logout
    \/ home
    \/ my_complaints
    \/ \E m \in {"GET", "POST"}, t \in {<<>>, <<"t">>} : submit_complaint(m, t, "high")
    \/ AdminSiteLogin(UsernameOf(1), PasswordOf(1))
    \/ AdminSiteLogout
    \/ AuthorityLoginPost(UsernameOf(1), PasswordOf(1), <<>>, <<>>, NoToken)
    \/ AuthorityLogout
    \/ GuardedView(None, NoToken)
    \/ \E v \in BOOLEAN : AdminEditUser(1, "is_active", v)

SpecCitizen == InitCitizen /\ [][NextCitizen]_vars

----------------------------------------------------------------------------
(* A complaint from its submission by a citizen through the work of the
   authority staff and of the Django admin site on it *)

\* posted forms, among them one with a department outside the directory and
\* one with a priority outside the choices
LifecycleForms ==
    PostedForms
    \cup {[NoComplaint EXCEPT !.status = "resolved", !.priority = "high",
                              !.assigned_department = "sewage"],
          [NoComplaint EXCEPT !.status = "resolved", !.priority = "bogus",
                              !.assigned_department = "power"]}

NextLifecycle ==
    \/ \E p \in Passwords : user_login("POST", ContactOf(2), p)
    \/ user_logout
    \/ home
    \/ my_complaints
    \/ \E c \in {ContactOf(2), <<>>} : forgot_password("POST", c)
    \/ \E m \in {"GET", "POST"}, p \in {"high", "bogus"} : submit_complaint(m, <<"t">>, p)
    \/ AuthorityLoginPost(UsernameOf(1), PasswordOf(1), <<>>, <<>>, NoToken)
    \/ AuthorityLogout
    \/ \E pk \in 1..MaxComplaints :
           \/ AuthorityComplaintDetail("GET", NoToken, pk, NoComplaint, <<>>, <<>>)
           \/ \E f \in LifecycleForms :
                  AuthorityComplaintDetail("POST", NoToken, pk, f, <<>>, <<>>)
    \/ \E pk \in 1..MaxComplaints, f \in LifecycleForms : AdminEditComplaint(pk, f)

SpecLifecycle == InitCitizen /\ [][NextLifecycle]_vars

----------------------------------------------------------------------------
(* An account that registers in the citizen portal and tries the authority
   routes, before and after the Django admin promotes it *)

NewAccount ==
    [username |-> <<"c", "i">>, contact |-> <<"900000003">>, password |-> "pw-c",
     fields_ok |-> TRUE]

\* the ids registration gives out
RegisteredIds == (1..MaxAccounts) \ UserIds

NextRegistered ==
    \/ register("POST", NewAccount)
    \/ \E p \in {NewAccount.password, PasswordOf(1)} :
           user_login("POST", NewAccount.contact, p)
    \/ user_logout
    \/ home
    \/ \E u \in {NewAccount.username, UsernameOf(1)}, n \in {<<>>, Url("power")} :
           AuthorityLoginPost(u, NewAccount.password, n, <<>>, NoToken)
    \/ \E u \in {UsernameOf(1)} :
           AuthorityLoginPost(u, PasswordOf(1), <<>>, <<>>, NoToken)
    \/ AuthorityLogout
    \/ \E r \in {None, "power"} : GuardedView(r, NoToken)
    \/ \E id \in RegisteredIds, v \in BOOLEAN : AdminEditUser(id, "is_staff", v)
    \/ \E id \in RegisteredIds, d \in {None, "power"} : AdminEditUser(id, "department", d)

SpecRegistered == InitCitizen /\ [][NextRegistered]_vars

----------------------------------------------------------------------------
(* The dashboards over every kind of complaint table and query *)

\* user 1 in the power department, user 2 in the admin department
DashUsers ==
    [InitUsers EXCEPT ![2].is_staff = TRUE, ![2].department = "admin"]

\* rows as the views and the Django admin leave them; "" is the empty
\* assignment of rows written outside the forms
DashComplaints ==
    {[Submitted(2, <<"a", "B">>, "medium") EXCEPT !.assigned_department = d] :
        d \in {None, "", "health"}}
    \cup {[Submitted(1, <<"c">>, "urgent") EXCEPT !.assigned_department = d,
                                                !.status = st] :
        <<d, st>> \in {<<"power", "in_progress">>, <<"health", "resolved">>,
                       <<"admin", "pending">>}}

DashParams ==
    {[q |-> q, status |-> st, priority |-> pr, department |-> d] :
        q \in {<<>>, <<" ", "A", "b">>},
        st \in {None, "pending"},
        pr \in {None, "urgent"},
        d \in {None, "", "unassigned", "health"}}

\* the slugs of the department route: three of the directory, one outside it
DashSlugs == {"power", "health", "admin", "sewage"}

InitDash ==
    /\ users = DashUsers
    /\ complaints \in [1..MaxRows -> DashComplaints]
    /\ cookies = NoCookies
    /\ held = NoToken
    /\ resp = Response("init", "")
    /\ probe = NoProbe
    /\ session = AnonymousSession
    /\ claimed = [pk \in DOMAIN complaints |-> None]
    /\ inflight = NoRequests

NextDash ==
    \/ \E id \in UserIds :
           AuthorityLoginPost(UsernameOf(id), PasswordOf(id), <<>>, <<>>, NoToken)
    \/ \E pa \in DashParams : AuthorityDashboard(NoToken, pa)
    \/ \E slug \in DashSlugs, pa \in DashParams :
           DepartmentDashboard(NoToken, slug, pa)

SpecDash == InitDash /\ [][NextDash]_vars

----------------------------------------------------------------------------
(* The department resolver on its own: every `next` URL put together from a
   scheme, a host, a path and a query or fragment *)

RECURSIVE SeqsUpTo(_, _)
\* the sequences over S of length at most n
SeqsUpTo(S, n) ==
    IF n = 0 THEN {<<>>}
    ELSE LET shorter == SeqsUpTo(S, n - 1)
         IN  shorter \cup {Append(q, x) : q \in {t \in shorter : Len(t) = n - 1}, x \in S}

PathTokens == {"/", "authority", "dashboard", "power"}

ProbeSchemes == {"", "http"}
ProbeHosts == {<<>>, <<"evil.com">>, <<"[">>}
ProbeTails == {<<>>, <<"?", "n", "/", "authority", "/", "power", "/">>,
               <<"#", "/", "authority", "/", "dashboard", "/">>}

\* the URL string of the parts (RFC 3986 section 5.3)
Compose(scheme, host, path, tail) ==
    (IF scheme # "" THEN <<scheme, ":">> ELSE <<>>)
    \o (IF host # <<>> THEN <<"/", "/">> \o host ELSE <<>>)
    \o path \o tail

\* the parts make a URL whose path component is `path`: with a host the path
\* is empty or rooted, without one it does not begin with "//"
WellFormedShape(x) ==
    IF x.host # <<>>
    THEN (IF x.path = <<>> THEN TRUE ELSE x.path[1] = "/")
    ELSE ~StartsWith(x.path, <<"/", "/">>)

ProbeShapes ==
    {x \in {[scheme |-> sc, host |-> h, path |-> pa, tail |-> t] :
                sc \in ProbeSchemes, h \in ProbeHosts,
                pa \in SeqsUpTo(PathTokens, MaxPathLen), t \in ProbeTails} :
        WellFormedShape(x)}

InitResolve ==
    /\ users = InitUsers
    /\ complaints = <<>>
    /\ cookies = NoCookies
    /\ held = NoToken
    /\ resp = Response("init", "")
    /\ \E x \in ProbeShapes :
           /\ probe = [url |-> Compose(x.scheme, x.host, x.path, x.tail),
                       scheme |-> x.scheme, host |-> x.host, path |-> x.path,
                       tail |-> x.tail, done |-> FALSE, result |-> None]
    /\ session = AnonymousSession
    /\ claimed = <<>>
    /\ inflight = NoRequests

\* lines 93-105 of authority_login applied to the URL
Resolve ==
    /\ ~probe.done
    /\ probe' = [probe EXCEPT !.done = TRUE, !.result = RequestedDept(probe.url)]
    /\ UNCHANGED <<users, complaints, cookies, held, resp, session, claimed, inflight>>

SpecResolve == InitResolve /\ [][Resolve]_vars

----------------------------------------------------------------------------
(* Claims *)

GuardedOps ==
    {"guarded_view", "authority_dashboard", "department_dashboard",
     "authority_complaint_detail"}

Landing == <<"/", "authority", "/">>
LoginUrl == <<"/", "authority", "/", "login", "/">>

\* the assignment is unset or empty
NoAssignment(c) == c.assigned_department \in {None, ""}

\* C1: whenever the department dashboard or the complaint detail route shows
\* or updates a complaint for an actor whose verified department is not admin,
\* the complaint was unassigned or assigned to the actor's department when the
\* guard checked; the department the guard verified is the account's own.
C1_DepartmentIsolation ==
    (resp.ran /\ resp.op \in GuardedOps /\ resp.jwt_department # "admin") =>
        /\ resp.jwt_department = users[resp.jwt_user].department
        /\ resp.op # "authority_dashboard"
        /\ \A pk \in resp.rows :
               \/ NoAssignment(complaints[pk])
               \/ complaints[pk].assigned_department = resp.jwt_department
        /\ (resp.form \/ resp.saved) =>
               \/ NoAssignment(resp.before)
               \/ resp.before.assigned_department = resp.jwt_department

\* C1 witness: a power-department actor has just reassigned a complaint of its
\* own department to the health department
C1_Witness ==
    /\ resp.op = "authority_complaint_detail" /\ resp.saved
    /\ resp.jwt_department = "power"
    /\ resp.before.assigned_department = "power"
    /\ complaints[resp.pk].assigned_department = "health"

\* the account a login names, 0 when there is none
AccountNamed(username) ==
    IF \E id \in DOMAIN users : users[id].username = username
    THEN CHOOSE id \in DOMAIN users : users[id].username = username
    ELSE 0

\* the login request carried the password of an active account
CredentialsGate ==
    LET a == AccountNamed(resp.username)
    IN  a # 0 /\ users[a].password = resp.password /\ users[a].is_active

\* section 4.2 steps 4 and 5 for the account the login names
DestinationGate ==
    LET a == AccountNamed(resp.username)
        x == RequestedDept(resp.next)
    IN  /\ x # Raises
        /\ IF x # None THEN users[a].department = x
           ELSE users[a].department \in Directory

LoginAnswered == resp.op = "authority_login" /\ resp.method = "POST"

NoSession ==
    /\ ~resp.minted
    /\ resp.set_access = NoToken /\ resp.set_refresh = NoToken
    /\ resp.status # "redirect"

\* C2: a login POST sets the access and the refresh cookie exactly when it
\* passes the credentials, staff and destination gates; otherwise no token is
\* minted and neither cookie is set; the two cookies are set together and hold
\* the minted pair; a GET of the login page sets none.
C2_SessionAllOrNothing ==
    /\ LoginAnswered =>
           /\ (resp.set_access # NoToken) <=>
                  (CredentialsGate /\ users[AccountNamed(resp.username)].is_staff
                   /\ DestinationGate)
           /\ (resp.set_access # NoToken) <=> (resp.set_refresh # NoToken)
           /\ (resp.set_access # NoToken) <=> resp.minted
           /\ resp.set_access # NoToken =>
                  /\ resp.status = "redirect"
                  /\ resp.set_access.token_type = "access"
                  /\ resp.set_refresh.token_type = "refresh"
                  /\ cookies = [access |-> resp.set_access, refresh |-> resp.set_refresh]
           /\ resp.set_access = NoToken => NoSession
    /\ (resp.op = "authority_login" /\ resp.method = "GET") => NoSession

\* C2 witness: a login that passed every gate and set both cookies
C2_Witness ==
    /\ LoginAnswered
    /\ resp.set_access # NoToken /\ resp.set_refresh # NoToken
    /\ resp.status = "redirect"

\* C3: a guarded request whose token claims a department or a staff flag that
\* the account no longer has is rejected to the login page, however well formed
\* and unexpired the token is; when the view runs, the department attached to
\* the request is the one the token claims.
C3_StaleClaimsRejected ==
    (resp.op \in GuardedOps /\ resp.presented.user_id \in DOMAIN users) =>
        /\ (\/ users[resp.presented.user_id].department # resp.presented.department
            \/ users[resp.presented.user_id].is_staff # resp.presented.is_staff) =>
               /\ ~resp.ran
               /\ resp.status = "redirect" /\ resp.location = LoginUrl
               /\ resp.jwt_department = None
        /\ resp.ran => resp.jwt_department = resp.presented.department

\* C3 witness: a token minted for the power department, still unexpired, was
\* presented after the account had moved to the health department
C3_Witness ==
    /\ resp.op \in GuardedOps
    /\ resp.presented.sig /\ ~resp.presented.expired
    /\ resp.presented.token_type = "access"
    /\ resp.presented.department = "power"
    /\ users[resp.presented.user_id].department = "health"
    /\ users[resp.presented.user_id].is_staff
    /\ ~resp.ran

\* C4: a login for a staff account of department Y with a `next` that resolves
\* to a department X # Y sets no cookie and mints no token, and with the right
\* password it is answered by the login page with the department-mismatch
\* message.
C4_DestinationMismatchRejected ==
    LET a == AccountNamed(resp.username)
        x == RequestedDept(resp.next)
    IN  (LoginAnswered /\ a # 0 /\ users[a].is_staff
         /\ x \notin {None, Raises} /\ x # users[a].department) =>
            /\ NoSession
            /\ CredentialsGate =>
                   /\ resp.status = "render" /\ resp.template = "authority_login.html"
                   /\ resp.msg = "DepartmentMismatch"
                   /\ resp.label = DeptName(x, x)

\* C4 witness: a staff account without department asked for the admin
\* dashboard with the right password
C4_Witness ==
    /\ LoginAnswered /\ CredentialsGate
    /\ users[AccountNamed(resp.username)].is_staff
    /\ users[AccountNamed(resp.username)].department = None
    /\ RequestedDept(resp.next) = "admin"
    /\ resp.msg = "DepartmentMismatch"

\* C5: a login for an account that is not staff never establishes a session,
\* whatever the password and whatever `next`; with the right password it is
\* answered by the login page with the no-permission message.
C5_NonStaffRejected ==
    LET a == AccountNamed(resp.username)
    IN  (LoginAnswered /\ a # 0 /\ ~users[a].is_staff) =>
            /\ NoSession
            /\ CredentialsGate =>
                   /\ resp.status = "render" /\ resp.template = "authority_login.html"
                   /\ resp.msg = "InsufficientRole"

\* C5 witness: a non-staff account of the power department gave the right
\* password and asked for the power dashboard
C5_Witness ==
    /\ LoginAnswered /\ CredentialsGate
    /\ ~users[AccountNamed(resp.username)].is_staff
    /\ users[AccountNamed(resp.username)].department = "power"
    /\ RequestedDept(resp.next) = "power"
    /\ resp.msg = "InsufficientRole"

\* C6: for a guard-passed actor and an existing complaint, the detail route
\* proceeds (shows the form or saves) exactly when the actor's department is
\* admin, the complaint is assigned to it, or the complaint is unassigned;
\* otherwise GET and POST alike redirect to the landing page with the
\* access-denied message, show no form and leave the complaint as it was.
C6_DetailAccess ==
    (resp.op = "authority_complaint_detail" /\ resp.ran /\ resp.status # "404") =>
        LET d == resp.jwt_department
            proceeds == resp.form \/ resp.saved
        IN  /\ proceeds <=> \/ d = "admin"
                            \/ resp.before.assigned_department = d
                            \/ NoAssignment(resp.before)
            /\ ~proceeds =>
                   /\ resp.status = "redirect" /\ resp.location = Landing
                   /\ resp.msg = "ComplaintAccessDenied"
                   /\ ~resp.form /\ ~resp.saved
                   /\ complaints[resp.pk] = resp.before

\* C6 witness: a power-department actor posted to a complaint assigned to the
\* health department and was turned away
C6_Witness ==
    /\ resp.op = "authority_complaint_detail" /\ resp.method = "POST" /\ resp.ran
    /\ resp.jwt_department = "power"
    /\ resp.before.assigned_department = "health"
    /\ resp.msg = "ComplaintAccessDenied"

NoFiltersGiven ==
    /\ resp.filters.q = <<>>
    /\ resp.filters.status = "all" /\ resp.filters.priority = "all"
    /\ resp.filters.department \in {None, "all"}

\* the base visibility set of department d
VisibleTo(d) ==
    {pk \in 1..Len(complaints) :
        NoAssignment(complaints[pk]) \/ complaints[pk].assigned_department = d}

\* C7: the rows of a non-admin department's dashboard are, for every query,
\* among the complaints assigned to it or unassigned, and are all of them when
\* no filter is given; the admin dashboard without filters lists every
\* complaint.
C7_DashboardVisibility ==
    /\ (resp.op = "department_dashboard" /\ resp.status = "render"
        /\ resp.jwt_department # "admin") =>
           /\ resp.rows \subseteq VisibleTo(resp.jwt_department)
           /\ NoFiltersGiven => resp.rows = VisibleTo(resp.jwt_department)
    /\ (resp.op = "authority_dashboard" /\ resp.status = "render" /\ NoFiltersGiven) =>
           resp.rows = 1..Len(complaints)

\* C7 witness: the power dashboard, searched and filtered, lists a complaint
\* while a complaint of the health department matches the same search
C7_Witness ==
    /\ resp.op = "department_dashboard" /\ resp.status = "render"
    /\ resp.jwt_department = "power"
    /\ resp.filters.q # <<>> /\ resp.filters.status = "pending"
    /\ resp.rows # {}
    /\ \E pk \in 1..Len(complaints) :
           /\ complaints[pk].assigned_department = "health"
           /\ complaints[pk].status = "pending"
           /\ MatchesSearch(complaints[pk], resp.filters.q)

\* the token verifies and its claims are those of a live, active account
ClaimsVerified(t) ==
    /\ t.token_type = "access" /\ t.sig /\ ~t.expired
    /\ t.user_id \in DOMAIN users
    /\ users[t.user_id].is_active
    /\ users[t.user_id].is_staff = t.is_staff
    /\ users[t.user_id].department = t.department

\* C8: with verified claims of department c, the view behind the guard runs
\* only if c = admin when admin is required, only if c = r when the code r is
\* required, only if c is non-empty when none is required (and then it does
\* run, for a staff account); in every other case the request is redirected to
\* the landing page.
C8_RequiredDepartment ==
    (resp.op = "guarded_view" /\ ClaimsVerified(resp.presented)) =>
        LET c == resp.presented.department
            r == resp.required
            fits == IF r = "admin" THEN c = "admin"
                    ELSE IF r \notin {None, ""} THEN c = r
                    ELSE c \notin {None, ""}
        IN  /\ resp.ran <=> (fits /\ resp.presented.is_staff)
            /\ ~resp.ran => (resp.status = "redirect" /\ resp.location = Landing)

\* C8 witness: admin claims met the requirement of the power department and
\* were sent to the landing page
C8_Witness ==
    /\ resp.op = "guarded_view" /\ ClaimsVerified(resp.presented)
    /\ resp.presented.is_staff
    /\ resp.presented.department = "admin" /\ resp.required = "power"
    /\ ~resp.ran /\ resp.location = Landing

\* C9: a guarded request without a credential, or with one that is malformed,
\* expired, badly signed, of a missing or inactive account, or whose claims
\* differ from the live account, does not reach the view and is redirected to
\* the authority login page.
C9_BadCredentialRejected ==
    (resp.op \in GuardedOps /\ ~ClaimsVerified(resp.presented)) =>
        /\ ~resp.ran
        /\ resp.jwt_user = 0
        /\ resp.status = "redirect" /\ resp.location = LoginUrl

\* C9 witness: an expired token, otherwise matching a live staff account, was
\* sent to the login page
C9_Witness ==
    /\ resp.op \in GuardedOps
    /\ resp.presented.expired
    /\ ClaimsVerified([resp.presented EXCEPT !.expired = FALSE])
    /\ resp.presented.is_staff
    /\ resp.location = LoginUrl

\* where the non-empty segments of a path begin
SegmentStarts(path) ==
    {i \in 1..Len(path) : path[i] # "/" /\ (IF i = 1 THEN TRUE ELSE path[i - 1] = "/")}

\* the segment that begins at i, as a string
SegmentAt(path, i) ==
    LET last == CHOOSE j \in i..Len(path) :
                    /\ \A k \in i..j : path[k] # "/"
                    /\ (j = Len(path) \/ path[j + 1] = "/")
    IN  Concat(SubSeq(path, i, last))

\* what the resolver is to return for a URL whose path component is `path`
ExpectedDept(path) ==
    LET starts == SegmentStarts(path)
        second == CHOOSE i \in starts : Cardinality({j \in starts : j < i}) = 1
    IN  IF ~(Len(path) >= 3 /\ path[1] = "/" /\ path[2] = "authority" /\ path[3] = "/")
           \/ Cardinality(starts) < 2
        THEN None
        ELSE IF SegmentAt(path, second) = "dashboard" THEN "admin"
        ELSE SegmentAt(path, second)

\* C10: the resolver's result depends on the path component of `next` alone
\* (scheme, host, query and fragment never change it): none unless the path
\* begins with /authority/ and has two non-empty segments, admin when the
\* second segment is "dashboard", the second segment itself otherwise; and the
\* four examples of the specification resolve as stated.
C10_ResolverUsesPathOnly ==
    /\ probe.done => probe.result = ExpectedDept(probe.path)
    /\ RequestedDept(<<"/", "authority", "/", "dashboard", "/">>) = "admin"
    /\ RequestedDept(<<"/", "authority", "/", "power", "/">>) = "power"
    /\ RequestedDept(<<"/", "elsewhere">>) = None
    /\ RequestedDept(<<>>) = None

\* what remains of C10: wherever urlparse returns, the result is the one the
\* path alone decides
ResolverUsesPathOnlyWhenParsed ==
    (probe.done /\ probe.result # Raises) => probe.result = ExpectedDept(probe.path)

\* a URL with scheme, host and query resolved to the department its path names
ResolverReachedForeignHost ==
    /\ probe.done
    /\ probe.scheme = "http" /\ probe.host = <<"evil.com">> /\ probe.tail # <<>>
    /\ probe.path = <<"/", "authority", "/", "power", "/">>
    /\ probe.result = "power"

\* what remains of C11 and C12: the only fault of the login flow is urlparse
\* raising on the `next` it was given
LoginFaultsOnlyWhenUrlparseRaises ==
    resp.op = "authority_login" =>
        (resp.status = "500" => RequestedDept(resp.next) = Raises)

\* C11: the department resolution never raises, whatever `next` is, so an
\* authority login request is always answered by a page or a redirect, never
\* by an unhandled fault.
C11_ResolverTotal ==
    resp.op = "authority_login" =>
        /\ RequestedDept(resp.next) # Raises
        /\ resp.status \in {"render", "redirect"}

\* C12: the first failing gate decides: a login POST with wrong credentials is
\* answered by the login page with the invalid-credentials message, whatever
\* the account is; one with correct credentials of a non-staff account by the
\* login page with the no-permission message, whatever `next` and department.
C12_GateOrder ==
    LoginAnswered =>
        /\ ~CredentialsGate =>
               /\ resp.status = "render" /\ resp.template = "authority_login.html"
               /\ resp.msg = "InvalidCredentials"
               /\ NoSession
        /\ (CredentialsGate /\ ~users[AccountNamed(resp.username)].is_staff) =>
               /\ resp.status = "render" /\ resp.template = "authority_login.html"
               /\ resp.msg = "InsufficientRole"
               /\ NoSession

\* what remains of C12: the gate order holds for every `next` on which
\* urlparse returns
GateOrderWhenParsed ==
    RequestedDept(resp.next) # Raises => C12_GateOrder

\* C13: both tokens a login mints carry the account's id, username, staff
\* flag and department; the staff flag is true, the department is non-empty
\* and is the destination `next` resolved to, if any; for an account whose
\* department is a Directory code or unset the minted department is a
\* Directory code.
C13_MintedClaims ==
    (LoginAnswered /\ resp.minted) =>
        LET a == resp.auth_user
            x == RequestedDept(resp.next)
        IN  /\ a = AccountNamed(resp.username)
            /\ \A t \in {resp.set_access, resp.set_refresh} :
                   /\ t.user_id = a
                   /\ t.username = users[a].username
                   /\ t.is_staff = users[a].is_staff /\ t.is_staff
                   /\ t.department = users[a].department
                   /\ t.department \notin {None, ""}
                   /\ x # None => t.department = x
                   /\ users[a].department \in Directory \cup {None} =>
                          t.department \in Directory

\* C13 witness: a login of a power-department account through a `next` on a
\* foreign host minted tokens of the power department
C13_Witness ==
    /\ LoginAnswered /\ resp.minted
    /\ resp.set_access.department = "power" /\ resp.set_refresh.department = "power"
    /\ resp.next = <<"http", ":", "/", "/", "evil.com">> \o Url("power")

\* the dashboard of department d
OwnDashboard(d) ==
    IF d = "admin" THEN <<"/", "authority", "/", "dashboard", "/">>
    ELSE <<"/", "authority", "/", d, "/">>

\* C14: a successful login redirects to the `next` URL it was given, and
\* without one to the dashboard of the account's department.
C14_RedirectTarget ==
    (LoginAnswered /\ resp.minted) =>
        /\ resp.status = "redirect"
        /\ resp.location = IF resp.next # <<>> THEN resp.next
                           ELSE OwnDashboard(users[resp.auth_user].department)

\* C15: a login with correct credentials of a staff account whose `next`
\* resolves to no destination establishes a session and goes to the admin
\* dashboard for department admin, to the department's dashboard for any other
\* Directory department, and is rejected with the no-department reason and no
\* session otherwise.
C15_BareLogin ==
    (LoginAnswered /\ CredentialsGate /\ users[AccountNamed(resp.username)].is_staff
     /\ RequestedDept(resp.next) = None) =>
        LET d == users[AccountNamed(resp.username)].department
        IN  IF d \in Directory
            THEN /\ resp.minted /\ resp.status = "redirect"
                 /\ resp.set_access # NoToken /\ resp.set_refresh # NoToken
                 /\ resp.location = OwnDashboard(d)
            ELSE /\ resp.status = "render" /\ resp.template = "authority_login.html"
                 /\ resp.msg = "NoDepartmentAssigned"
                 /\ NoSession

\* C15 witness: a staff account of a department outside the Directory logged
\* in with a `next` outside the authority area and was turned away
C15_Witness ==
    /\ LoginAnswered /\ CredentialsGate
    /\ users[AccountNamed(resp.username)].is_staff
    /\ users[AccountNamed(resp.username)].department = "legacy"
    /\ resp.next = <<"/", "elsewhere">>
    /\ resp.msg = "NoDepartmentAssigned"

\* a staff account gave its password with next=/authority/power/
PowerLogin ==
    /\ LoginAnswered /\ CredentialsGate
    /\ users[AccountNamed(resp.username)].is_staff
    /\ resp.next = Url("power")

\* C16 as stated: a staff login with next=/authority/power/ by an account of
\* the power department is rejected: the login page again, no cookies.
C16_PowerLoginRejected ==
    (PowerLogin /\ users[AccountNamed(resp.username)].department = "power") =>
        /\ resp.status = "render" /\ resp.template = "authority_login.html"
        /\ NoSession

\* C16 amended: a staff login with next=/authority/power/ is rejected (login
\* page, no cookies) exactly when the account's department is not power; an
\* account of the power department is accepted, gets both cookies and is
\* redirected to /authority/power/.
C16_PowerLoginAmended ==
    PowerLogin =>
        IF users[AccountNamed(resp.username)].department = "power"
        THEN /\ resp.status = "redirect" /\ resp.location = Url("power")
             /\ resp.set_access # NoToken /\ resp.set_refresh # NoToken
        ELSE /\ resp.status = "render" /\ resp.template = "authority_login.html"
             /\ resp.msg = "DepartmentMismatch"
             /\ NoSession

\* C16 witness: an admin-department account asked for the power dashboard and
\* stayed on the login page
C16_Witness ==
    /\ PowerLogin
    /\ users[AccountNamed(resp.username)].department = "admin"
    /\ resp.status = "render" /\ cookies = NoCookies

\* C18: whether the guard lets a request through depends on the presented
\* token and the live account alone: a well-signed, unexpired access token
\* whose staff flag and department equal those of the live, active account
\* passes (given the staff flag and the department the view requires), and no
\* other token does, whatever logouts, logins and edits of the account came
\* before.
C18_AcceptanceByTokenAndAccount ==
    resp.op \in GuardedOps =>
        LET c == resp.presented.department
            r == resp.required
            fits == IF r = "admin" THEN c = "admin"
                    ELSE IF r \notin {None, ""} THEN c = r
                    ELSE c \notin {None, ""}
        IN  resp.ran <=> (ClaimsVerified(resp.presented) /\ resp.presented.is_staff /\ fits)

\* C18 witness: after an authority logout emptied the jar, the token the
\* client had kept was presented in the Authorization header and accepted
C18_Witness ==
    /\ resp.op \in GuardedOps /\ resp.ran
    /\ cookies = NoCookies
    /\ resp.presented = held /\ held.token_type = "access"

\* C17: once a non-admin department has saved an unassigned complaint through
\* the detail view, every later save of that complaint by a non-admin
\* department is by that same department.
C17_FirstDepartmentKeepsComplaint ==
    (/\ resp.op = "authority_complaint_detail"
     /\ resp.saved
     /\ resp.jwt_department # "admin"
     /\ claimed[resp.pk] # None)
    => resp.jwt_department = claimed[resp.pk]

\* what the code does keep: a department saves a complaint only when the
\* complaint was unassigned or assigned to that department at that moment
SavedOnlyOwnOrUnassigned ==
    (/\ resp.op = "authority_complaint_detail"
     /\ resp.saved
     /\ resp.jwt_department # "admin")
    => \/ NoAssignment(resp.before)
       \/ resp.before.assigned_department = resp.jwt_department

CitizenPages == {"home", "submit_complaint", "my_complaints"}

CitizenLoginUrl == <<"/", "login", "/">>

\* the step was a successful citizen login or registration of the account
\* the session holds afterwards
PortalLogin ==
    /\ resp'.op \in {"user_login", "register"}
    /\ resp'.status = "redirect"
    /\ resp'.msg \in {"LoginSuccessful", "RegistrationSuccessful"}
    /\ resp'.auth_user = session'.user

\* C20: a citizen page runs exactly when the session's account is
\* authenticated and the session holds the user_logged_in flag, every other
\* request to it is redirected to the citizen login; the flag comes into a
\* session, or stays in one that changes its account, only by a successful
\* citizen login or registration, and is gone after a citizen logout.
C20_CitizenPagesNeedPortalLogin ==
    /\ [](resp.op \in CitizenPages =>
            /\ resp.ran <=> (IsAuthenticated /\ session.user_logged_in)
            /\ ~resp.ran => (resp.status = "redirect" /\ resp.location = CitizenLoginUrl))
    /\ [][/\ (/\ session'.user_logged_in
              /\ (~session.user_logged_in \/ session'.user # session.user))
             => PortalLogin
          /\ resp'.op = "user_logout" => ~session'.user_logged_in]_vars

\* C20 witness: a request to the home page by an account authenticated through
\* the Django admin site only was redirected to the citizen login
C20_Witness ==
    /\ resp.op = "home" /\ ~resp.ran
    /\ IsAuthenticated /\ users[session.user].is_staff
    /\ ~session.user_logged_in
    /\ resp.status = "redirect" /\ resp.location = CitizenLoginUrl
    /\ resp.msg = "CitizenPortalRequired"

\* C19: the authority guard lets a request through exactly when the presented
\* token and the live account say so, whatever the session holds; a citizen
\* page runs exactly when the session says so, whatever the cookie jar holds;
\* authority login, logout and guarded requests leave the session as it was,
\* citizen login, registration, logout and pages leave the cookie jar as it
\* was.
C19_ScopesIndependent ==
    /\ [](resp.op \in GuardedOps =>
            (resp.ran <=> /\ ClaimsVerified(resp.presented)
                          /\ resp.presented.is_staff
                          /\ resp.presented.department \notin {None, ""}))
    /\ [](resp.op \in CitizenPages =>
            (resp.ran <=> (IsAuthenticated /\ session.user_logged_in)))
    /\ [][/\ resp'.op \in GuardedOps \cup {"authority_login", "authority_logout"}
             => session' = session
          /\ resp'.op \in CitizenPages \cup {"user_login", "register", "user_logout"}
             => cookies' = cookies]_vars

\* C19 witness: the authority guard let a request through on the token of one
\* account while the session was logged into the portal as another account
C19_Witness ==
    /\ resp.op \in GuardedOps /\ resp.ran
    /\ IsAuthenticated /\ session.user_logged_in
    /\ session.user # resp.jwt_user

\* the complaints a dashboard route starts from, by the stored rows alone:
\* every complaint on /authority/dashboard/, the complaints assigned to the
\* slug or unassigned on /authority/<slug>/
RouteBase == IF resp.op = "authority_dashboard" THEN 1..Len(complaints) ELSE VisibleTo(resp.slug)

\* the number of complaints of the set S with status st
Having(S, st) == Cardinality({pk \in S : complaints[pk].status = st})

\* C21: on a rendered dashboard total, pending and resolved are the counts of
\* all, pending and resolved complaints of the route's unfiltered base set, the
\* third figure counts the complaints with a non-empty assignment other than
\* admin on the admin dashboard and the in-progress ones on a department
\* dashboard; the expected figures depend on the stored rows and the route
\* only, so they are the same for every search text and filter.
C21_StatsOverUnfilteredBase ==
    (resp.op \in {"authority_dashboard", "department_dashboard"} /\ resp.status = "render") =>
        /\ resp.base = RouteBase
        /\ resp.rows \subseteq resp.base
        /\ resp.stats.total = Cardinality(RouteBase)
        /\ resp.stats.pending = Having(RouteBase, "pending")
        /\ resp.stats.resolved = Having(RouteBase, "resolved")
        /\ resp.stats.third =
              IF resp.op = "authority_dashboard"
              THEN Cardinality({pk \in RouteBase :
                      ~NoAssignment(complaints[pk])
                      /\ complaints[pk].assigned_department # "admin"})
              ELSE Having(RouteBase, "in_progress")

\* C21 witness: a department dashboard narrowed by search and status filter
\* lists fewer rows than its total, which still counts an in-progress
\* complaint that the filter hides
C21_Witness ==
    /\ resp.op = "department_dashboard" /\ resp.status = "render"
    /\ resp.filters.q # <<>> /\ resp.filters.status = "pending"
    /\ Cardinality(resp.rows) < resp.stats.total
    /\ resp.stats.third > 0

\* nothing of the complaint table is in the response
ShowsNoComplaint ==
    /\ resp.base = {} /\ resp.rows = {}
    /\ resp.stats = NoStats /\ resp.before = NoComplaint

\* C22: when the guard let a request to /authority/<slug>/ through, the
\* dashboard is rendered exactly when the slug is a Directory code and equals
\* the department of the verified claims; a slug outside the Directory is
\* answered with the unknown-department message, a Directory code other than
\* the claims' department with the department-mismatch message, both as a
\* redirect to the landing page that holds nothing of any complaint.
C22_DepartmentRouteChecks ==
    (resp.op = "department_dashboard" /\ resp.ran) =>
        /\ resp.status = "render" <=>
              (resp.slug \in Directory /\ resp.slug = resp.presented.department)
        /\ resp.slug \notin Directory =>
              /\ resp.msg = "UnknownDepartment"
              /\ resp.status = "redirect" /\ resp.location = Landing
              /\ ShowsNoComplaint
        /\ (resp.slug \in Directory /\ resp.slug # resp.presented.department) =>
              /\ resp.msg = "DepartmentMismatch"
              /\ resp.status = "redirect" /\ resp.location = Landing
              /\ ShowsNoComplaint

\* C22 witness: staff of the power department asked for a slug outside the
\* Directory while complaints it may see are stored
C22_Witness ==
    /\ resp.op = "department_dashboard" /\ resp.ran
    /\ resp.jwt_department = "power"
    /\ resp.slug \notin Directory
    /\ resp.msg = "UnknownDepartment"
    /\ VisibleTo("power") # {}

\* the fields of a complaint other than the three of the authority form
KeptFields(c) == DOMAIN c \ {"status", "assigned_department", "priority"}

\* the step saved complaint pk through the detail route, behind the guard
SavedByDetailPost(pk) ==
    /\ resp'.op = "authority_complaint_detail" /\ resp'.method = "POST"
    /\ resp'.ran /\ resp'.saved /\ resp'.pk = pk
    /\ \A f \in KeptFields(complaints[pk]) : complaints'[pk][f] = complaints[pk][f]

\* a step that adds a complaint is a submission by the session's account, and
\* the new complaint is that account's, unassigned and pending
SubmissionsAsStored ==
    Len(complaints') # Len(complaints) =>
        /\ resp'.op = "submit_complaint" /\ resp'.ran
        /\ Len(complaints') = Len(complaints) + 1
        /\ complaints'[Len(complaints')].user = RequestUser
        /\ complaints'[Len(complaints')].assigned_department = None
        /\ complaints'[Len(complaints')].status = "pending"

\* C23: an existing complaint changes only by a saved, guard-passed POST to
\* its detail route, which leaves every field but status, assigned department
\* and priority as it was; a new complaint is the submitter's, unassigned and
\* pending.
C23_OnlyDetailPostChanges ==
    [][/\ \A pk \in DOMAIN complaints :
              /\ pk \in DOMAIN complaints'
              /\ complaints'[pk] # complaints[pk] => SavedByDetailPost(pk)
       /\ SubmissionsAsStored]_vars

\* C23 as amended: an existing complaint changes only by a saved, guard-passed
\* POST to its detail route, which leaves every field but status, assigned
\* department and priority as it was, or by an edit in the Django admin site;
\* no citizen-facing view changes it; a new complaint is the submitter's,
\* unassigned and pending.
C23_OnlyDetailPostOrAdminSite ==
    [][/\ \A pk \in DOMAIN complaints :
              /\ pk \in DOMAIN complaints'
              /\ complaints'[pk] # complaints[pk] =>
                    \/ SavedByDetailPost(pk)
                    \/ resp'.op = "external" /\ resp'.msg = "complaint edited"
       /\ SubmissionsAsStored]_vars

\* C23 witness: a complaint a citizen submitted was saved through the detail
\* route with another status and assignment, its owner, title and location
\* as submitted
C23_Witness ==
    /\ resp.op = "authority_complaint_detail" /\ resp.saved
    /\ complaints[resp.pk] # resp.before
    /\ complaints[resp.pk].user = 2
    /\ complaints[resp.pk].title = resp.before.title
    /\ complaints[resp.pk].assigned_department = "health"
    /\ resp.before.assigned_department = None

\* the three choice fields of a complaint or of a posted form hold values of
\* their sets; blank stands for no assignment
InChoices(c, blank) ==
    /\ c.assigned_department \in blank \cup Directory
    /\ c.status \in {"pending", "in_progress", "resolved"}
    /\ c.priority \in {"low", "medium", "high", "urgent"}

\* C24: every stored complaint has an assignment that is unset, empty or a
\* Directory code, a status among pending, in_progress, resolved and a
\* priority among low, medium, high, urgent; a POST to the detail route that
\* carries a value outside these sets is answered as invalid and the complaint
\* is afterwards exactly what it was before.
C24_ChoicesKept ==
    /\ \A pk \in DOMAIN complaints : InChoices(complaints[pk], {None, ""})
    /\ (/\ resp.op = "authority_complaint_detail" /\ resp.method = "POST"
        /\ resp.ran /\ resp.pk \in DOMAIN complaints
        /\ resp.msg # "ComplaintAccessDenied")
       => /\ resp.saved <=> InChoices(resp.posted, {""})
          /\ ~resp.saved => /\ resp.msg = "InvalidForm"
                            /\ complaints[resp.pk] = resp.before

\* C24 witness: a POST with a department outside the Directory was answered
\* as invalid
C24_Witness ==
    /\ resp.op = "authority_complaint_detail" /\ resp.method = "POST"
    /\ resp.msg = "InvalidForm" /\ ~resp.saved
    /\ resp.posted.assigned_department \notin Directory \cup {""}
    /\ resp.posted.status \in STATUS_CHOICES
    /\ complaints[resp.pk] = resp.before

\* C25: an authority logout leaves the jar without access and refresh cookie
\* and every account and complaint as it was; an empty jar gets an access
\* cookie again only by a login that minted it (or by a cookie the client
\* plants itself); and a guarded request that presents no token, neither
\* cookie nor header, is redirected to the authority login.
C25_LogoutClearsCredential ==
    /\ [][resp'.op = "authority_logout" =>
             /\ cookies' = NoCookies
             /\ users' = users /\ complaints' = complaints]_vars
    /\ [][(cookies.access = NoToken /\ cookies'.access # NoToken) =>
             \/ /\ resp'.op = "authority_login" /\ resp'.minted
                /\ cookies'.access = resp'.set_access
             \/ resp'.op = "external"]_vars
    /\ []((resp.op \in GuardedOps /\ resp.presented = NoToken) =>
             /\ ~resp.ran
             /\ resp.status = "redirect" /\ resp.location = LoginUrl)

\* C25 witness: the token of the last login is still valid and in the client's
\* hands, the jar is empty after the logout, and a guarded request without a
\* header was redirected to the login
C25_Witness ==
    /\ resp.op \in GuardedOps /\ resp.presented = NoToken
    /\ cookies = NoCookies
    /\ ClaimsVerified(held) /\ held.is_staff
    /\ ~resp.ran /\ resp.location = LoginUrl

\* C26: whenever the body of a guarded view runs, the account attached to the
\* request is the one the token names, it exists, is active and is staff, and
\* the attached department is not empty and is both the department the token
\* claims and the department the account has.
C26_AttachedPairVerified ==
    (resp.op \in GuardedOps /\ resp.ran) =>
        /\ resp.jwt_user = resp.presented.user_id
        /\ resp.jwt_user \in DOMAIN users
        /\ users[resp.jwt_user].is_active
        /\ users[resp.jwt_user].is_staff
        /\ resp.jwt_department \notin {None, ""}
        /\ resp.jwt_department = resp.presented.department
        /\ resp.jwt_department = users[resp.jwt_user].department

\* C26 witness: a view that requires no particular department ran for the
\* staff account of the admin department
C26_Witness ==
    /\ resp.op = "guarded_view" /\ resp.ran
    /\ resp.required = None
    /\ resp.jwt_user = 1
    /\ resp.jwt_department = "admin"
    /\ users[1].department = "admin" /\ users[1].is_staff /\ users[1].is_active

\* the guard lets token t through to a view that requires department r
Accepts(t, r) ==
    /\ ClaimsVerified(t) /\ t.is_staff
    /\ IF r = "admin" THEN t.department = "admin"
       ELSE IF r \notin {None, ""} THEN t.department = r
       ELSE t.department \notin {None, ""}

\* C27: when the jar holds an access cookie the guard decides on the cookie's
\* token alone, whatever the Authorization header carries; when it holds none
\* the guard decides on the header's token, by the same rule as for a cookie.
C27_BearerOnlyWithoutCookie ==
    resp.op \in GuardedOps =>
        /\ cookies.access # NoToken =>
              /\ resp.presented = cookies.access
              /\ resp.ran <=> Accepts(cookies.access, resp.required)
        /\ cookies.access = NoToken =>
              /\ resp.presented = resp.bearer
              /\ resp.ran <=> Accepts(resp.bearer, resp.required)

\* C27 witness: a request with an expired cookie and a header token that the
\* guard would accept was rejected
C27_Witness ==
    /\ resp.op = "guarded_view" /\ ~resp.ran
    /\ cookies.access.token_type = "access" /\ cookies.access.expired
    /\ resp.bearer # NoToken
    /\ Accepts(resp.bearer, resp.required)

\* C28: an account that registration creates is not staff and has no
\* department; the staff flag and the department of an account change only by
\* an edit in the Django admin; and a login mints tokens for an account, or
\* the guard lets a request through for it, only while the account is staff
\* and has a department, so never for a registered account the admin has not
\* changed.
C28_RegisteredNeverAuthority ==
    /\ [][\A id \in DOMAIN users' \ DOMAIN users :
              /\ resp'.op = "register" /\ resp'.auth_user = id
              /\ ~users'[id].is_staff
              /\ users'[id].department = None]_vars
    /\ [][\A id \in DOMAIN users :
              (\/ users'[id].is_staff # users[id].is_staff
               \/ users'[id].department # users[id].department)
              => (resp'.op = "external" /\ resp'.msg = "user edited")]_vars
    /\ []((resp.op = "authority_login" /\ resp.minted) =>
              /\ users[resp.auth_user].is_staff
              /\ Truthy(users[resp.auth_user].department))
    /\ []((resp.op \in GuardedOps /\ resp.ran) =>
              /\ users[resp.jwt_user].is_staff
              /\ Truthy(users[resp.jwt_user].department))

\* C28 witness: the registered account, as registration left it, gave its
\* right password to the authority login and got no token
C28_Witness ==
    /\ resp.op = "authority_login" /\ resp.method = "POST"
    /\ resp.auth_user \in DOMAIN users \ UserIds
    /\ ~users[resp.auth_user].is_staff
    /\ users[resp.auth_user].department = None
    /\ ~resp.minted /\ cookies = NoCookies
    /\ resp.msg = "InsufficientRole"

\* complaint pk passes the search, status and priority filters of the response
PassesOtherFilters(pk) ==
    /\ resp.filters.q = <<>> \/ MatchesSearch(complaints[pk], resp.filters.q)
    /\ resp.filters.status = "all" \/ complaints[pk].status = resp.filters.status
    /\ resp.filters.priority = "all" \/ complaints[pk].priority = resp.filters.priority

\* the rows of a department dashboard never depend on the department parameter
DepartmentRowsIgnoreParameter ==
    (resp.op = "department_dashboard" /\ resp.status = "render") =>
        /\ resp.filters.department = None
        /\ resp.rows = {pk \in VisibleTo(resp.slug) : PassesOtherFilters(pk)}

\* C29: on the admin dashboard the department filter "unassigned" lists
\* exactly the complaints, among those passing the other filters, whose
\* assignment is null or empty, "all" lists all of them, and every other value
\* lists exactly those assigned to that value; a department dashboard ignores
\* the department parameter.
C29_DepartmentFilter ==
    /\ (resp.op = "authority_dashboard" /\ resp.status = "render") =>
          resp.rows =
             {pk \in 1..Len(complaints) :
                 /\ PassesOtherFilters(pk)
                 /\ IF resp.filters.department = "unassigned"
                    THEN NoAssignment(complaints[pk])
                    ELSE IF resp.filters.department = "all" THEN TRUE
                    ELSE complaints[pk].assigned_department = resp.filters.department}
    /\ DepartmentRowsIgnoreParameter

\* C29 as amended: as C29, with the empty value of the department filter
\* applying no restriction, like "all".
C29_DepartmentFilterEmptyIsAll ==
    /\ (resp.op = "authority_dashboard" /\ resp.status = "render") =>
          resp.rows =
             {pk \in 1..Len(complaints) :
                 /\ PassesOtherFilters(pk)
                 /\ IF resp.filters.department = "unassigned"
                    THEN NoAssignment(complaints[pk])
                    ELSE IF resp.filters.department \in {"all", ""} THEN TRUE
                    ELSE complaints[pk].assigned_department = resp.filters.department}
    /\ DepartmentRowsIgnoreParameter

\* C29 witness: the admin dashboard filtered by "unassigned" lists a complaint
\* whose assignment is the empty string and one whose assignment is null, and
\* leaves out no unassigned one
C29_Witness ==
    /\ resp.op = "authority_dashboard" /\ resp.status = "render"
    /\ resp.filters.department = "unassigned"
    /\ \E pk \in resp.rows : complaints[pk].assigned_department = ""
    /\ \E pk \in resp.rows : complaints[pk].assigned_department = None

\* what holds of the department route with code admin: its base set is the
\* complaints assigned to admin or unassigned, like any other department's
AdminSlugBaseAsDepartment ==
    (resp.op = "department_dashboard" /\ resp.status = "render"
     /\ resp.jwt_department = "admin") =>
        resp.base = VisibleTo("admin")

\* C30: every dashboard rendered for an actor of the admin department, the
\* admin dashboard and the department route with code admin, has the set of
\* all complaints as the base of its rows and statistics.
C30_AdminBaseIsAll ==
    (/\ resp.op \in {"authority_dashboard", "department_dashboard"}
     /\ resp.status = "render"
     /\ resp.jwt_department = "admin") =>
        /\ resp.base = 1..Len(complaints)
        /\ resp.stats.total = Len(complaints)
        /\ NoFiltersGiven => resp.rows = 1..Len(complaints)

\* the URL is a path on the same host inside the authority area: it starts
\* with /authority/ and names neither scheme nor host
AuthorityPath(url) ==
    /\ Len(url) >= 3
    /\ url[1] = "/" /\ url[2] = "authority" /\ url[3] = "/"

\* what holds of the redirect after a login: a non-admin account is sent to a
\* path the application builds itself
NonAdminRedirectIsOwnPath ==
    (LoginAnswered /\ resp.minted /\ users[resp.auth_user].department # "admin") =>
        resp.location = OwnDashboard(users[resp.auth_user].department)

\* C31: a successful authority login redirects to a path of the authority
\* area on the same host, never to a URL that names a scheme or a host,
\* whatever the account's department.
C31_RedirectStaysOnHost ==
    (LoginAnswered /\ resp.minted) =>
        /\ resp.status = "redirect"
        /\ AuthorityPath(resp.location)

\* the response carries no Set-Cookie header for the authority cookies
NoCookieHeader(r) ==
    r.set_access = NoToken /\ r.set_refresh = NoToken /\ ~r.cleared

\* C32: a request changes the authority cookies only when it is a login that
\* minted tokens, which sets both to the minted pair, or an authority logout,
\* which deletes both; every other request, a rejected login and a rejected
\* guarded request among them, carries no cookie header and leaves the jar as
\* it was.
C32_CookiesChangeOnlyByLoginLogout ==
    [][resp'.op # "external" =>
          IF resp'.op = "authority_login" /\ resp'.minted
          THEN /\ resp'.set_access # NoToken /\ resp'.set_refresh # NoToken
               /\ cookies' = [access |-> resp'.set_access, refresh |-> resp'.set_refresh]
          ELSE IF resp'.op = "authority_logout"
          THEN cookies' = NoCookies
          ELSE /\ NoCookieHeader(resp')
               /\ cookies' = cookies]_vars

\* C32 witness: a guarded request was rejected for its expired token and the
\* jar still holds that token and the refresh token
C32_Witness ==
    /\ resp.op \in GuardedOps /\ ~resp.ran
    /\ resp.presented = cookies.access
    /\ cookies.access.token_type = "access" /\ cookies.access.expired
    /\ cookies.refresh.token_type = "refresh"

\* request p commits its write in this step
WriteCommits(p) == inflight[p].pc = "validated" /\ inflight'[p].pc = "idle"

\* every request in flight passed the access check against the copy it read
InFlightPassedOnItsCopy ==
    \A p \in Procs :
        inflight[p].pc = "validated" =>
            DetailAllowed(inflight[p].r.jwt_department, inflight[p].r.before)

\* C33: under every interleaving of two concurrent POSTs to the same
\* complaint's detail route, every committed write is made by an actor who is
\* admin, or whose department equals the complaint's stored
\* assigned_department at the moment of the write, or that assignment is unset
\* at that moment.
C33_WriterAllowedAtWrite ==
    [][\A p \in Procs :
          WriteCommits(p) =>
              LET department == inflight[p].r.jwt_department
                  stored     == complaints[inflight[p].r.pk]
              IN  \/ department = "admin"
                  \/ ~Truthy(stored.assigned_department)
                  \/ department = stored.assigned_department]_vars

====
